---- MODULE Spec2Model ----
(***************************************************************************)
(* AI Builder Studio: the application state controller (App.tsx), the      *)
(* project repository and the version history ledger (storageService.ts)   *)
(* and the generation client (geminiService.ts).                           *)
(*                                                                         *)
(* Text (prompts, code, names) is a sequence of tokens.  " " is one        *)
(* whitespace character, "F" is a run of three backticks, "l" is one       *)
(* lowercase letter, every other token is a piece of content that contains *)
(* neither whitespace nor backticks and does not start with a letter.      *)
(***************************************************************************)
EXTENDS Integers, Sequences, FiniteSets, TLC

(* ---------------------------------------------------------------------- *)
(* Program constants and bounds                                           *)
(* ---------------------------------------------------------------------- *)
MAX_HISTORY_ITEMS == 50

\* Date.now() is read from a clock that never runs backwards; it stops at MaxTime.
MaxTime == 2

\* Ledger length up to which the specifications start operations that append
\* to the ledger.
MaxLedger == 3

\* The history dialog rows whose Restore and Compare buttons are pressed.
MaxRow == 3
MaxFetches == 2
MaxLen == 3

(* ---------------------------------------------------------------------- *)
(* Text                                                                   *)
(* ---------------------------------------------------------------------- *)
EmptyText == <<>>
WS == " "
NULL == <<"null">>

Front(s) == SubSeq(s, 1, Len(s) - 1)
Last(s) == s[Len(s)]
Take(s, n) == SubSeq(s, 1, IF Len(s) < n THEN Len(s) ELSE n)

RECURSIVE DropLeading(_, _)
DropLeading(tok, s) ==
  IF s # <<>> /\ Head(s) = tok THEN DropLeading(tok, Tail(s)) ELSE s

RECURSIVE DropTrailing(_, _)
DropTrailing(tok, s) ==
  IF s # <<>> /\ Last(s) = tok THEN DropTrailing(tok, Front(s)) ELSE s

\* String.prototype.trim
trim(s) == DropTrailing(WS, DropLeading(WS, s))

\* JavaScript truthiness of a string: '' is falsy
Truthy(s) == s # EmptyText

(* ---------------------------------------------------------------------- *)
(* Generation client (geminiService.ts)                                   *)
(* ---------------------------------------------------------------------- *)
\* code.replace(/^```[a-z]*\s*|```\s*$/g, ''): the first alternative matches
\* only at the start, the second only a fence followed by whitespace up to the end.
StripLeadingFence(s) ==
  IF s # <<>> /\ Head(s) = "F"
    THEN DropLeading(WS, DropLeading("l", Tail(s)))
    ELSE s

StripTrailingFence(s) ==
  LET t == DropTrailing(WS, s)
  IN IF t # <<>> /\ Last(t) = "F" THEN Front(t) ELSE s

stripFences(s) == trim(StripTrailingFence(StripLeadingFence(s)))

\* A reply of ai.models.generateContent: either the call throws (kind "throw",
\* msg the class of the thrown message) or a response arrives.
Resolved(text) == [ok |-> TRUE, text |-> text, msg |-> "none"]
Rejected(msg) == [ok |-> FALSE, text |-> EmptyText, msg |-> msg]

callApi(reply) ==
  IF reply.kind = "throw" THEN
    CASE reply.msg = "api key not valid" -> Rejected("API Key not valid")
      [] reply.msg = "quota" -> Rejected("quota exceeded")
      [] reply.msg = "fetch" -> Rejected("Network error")
      [] OTHER -> Rejected(reply.msg)
  ELSE IF ~reply.candidate THEN Rejected("no candidates")
  ELSE IF reply.finishReason # "none" /\ reply.finishReason # "STOP" THEN
    CASE reply.finishReason = "SAFETY" -> Rejected("blocked for safety reasons")
      [] reply.finishReason = "RECITATION" -> Rejected("recitation")
      [] reply.finishReason = "MAX_TOKENS" -> Rejected("maximum token limit")
      [] OTHER -> Rejected("unexpected reason")
  ELSE IF ~Truthy(reply.text) THEN Rejected("empty response")
  ELSE Resolved(stripFences(reply.text))

(* ---------------------------------------------------------------------- *)
(* Persistent store values                                                *)
(* ---------------------------------------------------------------------- *)
\* A key of localStorage is absent, holds text that JSON.parse rejects, or
\* holds the JSON encoding of a value (kept here as the value itself:
\* JSON.parse(JSON.stringify(v)) = v for the strings, integers, arrays and
\* plain objects that are stored).
Absent == [kind |-> "absent"]
Corrupt == [kind |-> "corrupt"]
Json(v) == [kind |-> "json", value |-> v]

(* ---------------------------------------------------------------------- *)
(* Version history ledger (storageService.ts)                             *)
(* ---------------------------------------------------------------------- *)
getHistory(store) == IF store.kind = "json" THEN store.value ELSE <<>>

\* addToHistory without the slice to MAX_HISTORY_ITEMS
addToHistory_noSlice(store, code, now, writeOk) ==
  IF ~Truthy(code) \/ trim(code) = EmptyText
    THEN [ret |-> getHistory(store), store |-> store, wrote |-> FALSE]
  ELSE LET history == getHistory(store) IN
    IF Len(history) > 0 /\ history[1].code = code
      THEN [ret |-> history, store |-> store, wrote |-> FALSE]
    ELSE LET newHistory == <<[code |-> code, timestamp |-> now]>> \o history
         IN [ret |-> newHistory,
             store |-> IF writeOk THEN Json(newHistory) ELSE store,
             wrote |-> TRUE]

\* addToHistory without the comparison with the most recent version
addToHistory_noHeadCheck(store, code, now, writeOk) ==
  IF ~Truthy(code) \/ trim(code) = EmptyText
    THEN [ret |-> getHistory(store), store |-> store, wrote |-> FALSE]
  ELSE LET newHistory == Take(<<[code |-> code, timestamp |-> now]>> \o getHistory(store),
                              MAX_HISTORY_ITEMS)
       IN [ret |-> newHistory,
           store |-> IF writeOk THEN Json(newHistory) ELSE store,
           wrote |-> TRUE]

\* addToHistory that tests only for the empty string, not for blank text
addToHistory_noTrim(store, code, now, writeOk) ==
  IF ~Truthy(code)
    THEN [ret |-> getHistory(store), store |-> store, wrote |-> FALSE]
  ELSE LET history == getHistory(store) IN
    IF Len(history) > 0 /\ history[1].code = code
      THEN [ret |-> history, store |-> store, wrote |-> FALSE]
    ELSE LET newHistory == Take(<<[code |-> code, timestamp |-> now]>> \o history,
                                MAX_HISTORY_ITEMS)
         IN [ret |-> newHistory,
             store |-> IF writeOk THEN Json(newHistory) ELSE store,
             wrote |-> TRUE]

\* addToHistory that evicts the newest of the earlier entries, not the oldest
addToHistory_evictsNewest(store, code, now, writeOk) ==
  IF ~Truthy(code) \/ trim(code) = EmptyText
    THEN [ret |-> getHistory(store), store |-> store, wrote |-> FALSE]
  ELSE LET history == getHistory(store) IN
    IF Len(history) > 0 /\ history[1].code = code
      THEN [ret |-> history, store |-> store, wrote |-> FALSE]
    ELSE LET newVersion == [code |-> code, timestamp |-> now]
             newHistory == IF Len(history) < MAX_HISTORY_ITEMS
                             THEN <<newVersion>> \o history
                             ELSE <<newVersion>> \o Tail(history)
         IN [ret |-> newHistory,
             store |-> IF writeOk THEN Json(newHistory) ELSE store,
             wrote |-> TRUE]

\* The result of addToHistory(code): ret is the returned sequence, store the
\* value of the history key afterwards, wrote whether setItem was called.
\* now is Date.now(), writeOk whether localStorage.setItem accepts the write.
addToHistory(store, code, now, writeOk) ==
  IF ~Truthy(code) \/ trim(code) = EmptyText
    THEN [ret |-> getHistory(store), store |-> store, wrote |-> FALSE]
  ELSE LET history == getHistory(store) IN
    IF Len(history) > 0 /\ history[1].code = code
      THEN [ret |-> history, store |-> store, wrote |-> FALSE]
    ELSE LET newVersion == [code |-> code, timestamp |-> now]
             newHistory == Take(<<newVersion>> \o history, MAX_HISTORY_ITEMS)
         IN [ret |-> newHistory,
             store |-> IF writeOk THEN Json(newHistory) ELSE store,
             wrote |-> TRUE]

(* ---------------------------------------------------------------------- *)
(* Project repository (storageService.ts)                                 *)
(* ---------------------------------------------------------------------- *)
\* A mapping name -> SavedProject is a function on the set of its names.
EmptyMapping == <<>>

getProjects(store) == IF store.kind = "json" THEN store.value ELSE EmptyMapping

\* projects[name] = project on the plain object that JSON.parse returned.
\* Assigning to the key "__proto__" calls the setter inherited from
\* Object.prototype: it creates no own property, so JSON.stringify, which
\* writes own properties only, does not see it.
ProtoKey == <<"__proto__">>

Assign(projects, name, project) ==
  IF name = ProtoKey THEN projects
  ELSE [n \in DOMAIN projects \cup {name} |->
          IF n = name THEN project ELSE projects[n]]

\* delete projects[name]
Delete(projects, name) ==
  [n \in DOMAIN projects \ {name} |-> projects[n]]

\* saveProject / deleteProject: store is the projects key afterwards, threw
\* whether the function throws to its caller.
saveProject(store, name, project, writeOk) ==
  LET projects == Assign(getProjects(store), name, project)
  IN IF writeOk THEN [store |-> Json(projects), threw |-> FALSE]
               ELSE [store |-> store, threw |-> TRUE]

\* deleteProject writing an empty mapping
deleteProject_clears(store, name, writeOk) ==
  IF writeOk THEN [store |-> Json(EmptyMapping), threw |-> FALSE]
             ELSE [store |-> store, threw |-> TRUE]

deleteProject(store, name, writeOk) ==
  LET projects == Delete(getProjects(store), name)
  IN IF writeOk THEN [store |-> Json(projects), threw |-> FALSE]
               ELSE [store |-> store, threw |-> TRUE]

(* ---------------------------------------------------------------------- *)
(* Import normalisation (App.tsx, processUploadedHtml)                    *)
(* ---------------------------------------------------------------------- *)
\* Tokens of an HTML text: "D" is the doctype with the opening html and head
\* tags, "|" the end of the head and the start of the body, "T" the Tailwind
\* script tag, "K" the Inter font link tag, "S" the font-family style block.
HeadTokens == {"T", "K", "S"}

RECURSIVE IndexOf(_, _, _)
IndexOf(tok, s, i) ==
  IF i > Len(s) THEN 0 ELSE IF s[i] = tok THEN i ELSE IndexOf(tok, s, i + 1)

RECURSIVE LeadingHead(_, _)
LeadingHead(s, i) ==
  IF i <= Len(s) /\ s[i] \in HeadTokens THEN LeadingHead(s, i + 1) ELSE i - 1

\* DOMParser.parseFromString: the head is what the text puts in its head
\* element, or the head-level elements that come before any body content.
parseHead(s) ==
  LET t == IF s # <<>> /\ Head(s) = "D" THEN Tail(s) ELSE s
      bar == IndexOf("|", t, 1)
  IN IF bar > 0 THEN SubSeq(t, 1, bar - 1) ELSE SubSeq(t, 1, LeadingHead(t, 1))

parseBody(s) ==
  LET t == IF s # <<>> /\ Head(s) = "D" THEN Tail(s) ELSE s
      bar == IndexOf("|", t, 1)
  IN IF bar > 0 THEN SubSeq(t, bar + 1, Len(t))
               ELSE SubSeq(t, LeadingHead(t, 1) + 1, Len(t))

Contains(s, tok) == \E i \in 1..Len(s) : s[i] = tok

processUploadedHtml(html) ==
  LET head0 == parseHead(html)
      head1 == IF Contains(head0, "T") THEN head0 ELSE Append(head0, "T")
      head2 == IF Contains(head1, "K") THEN head1 ELSE Append(head1, "K")
      head3 == Append(head2, "S")
  IN <<"D">> \o head3 \o <<"|">> \o parseBody(html)

ImportedPrompt == <<"imported">>

(* ---------------------------------------------------------------------- *)
(* Application state controller (App.tsx)                                 *)
(* ---------------------------------------------------------------------- *)
VARIABLES
  prompt, refinementPrompt, initialPrompt, generatedCode, previousCode,
  activeTab, loadingState, error, codeSourceInfo, savedProjects,
  versionHistory, versionToRestore, diffTarget,
  isClearConfirmVisible, isSaveDialogVisible,
  isLoadDialogVisible, isHistoryDialogVisible, isRestoreConfirmVisible,
  saveDialogError,
  lsProjects, lsHistory, lsInitialPrompt,
  apiCall, fileReads, now, lastCall,
  isCloneDialogVisible, repoUrl, isLoading, cloneError, fetches, fetched,
  timers, lsCode, written

controllerVars == <<prompt, refinementPrompt, initialPrompt, generatedCode,
  previousCode, activeTab, loadingState, error, codeSourceInfo>>
ledgerVars == <<versionHistory, lsHistory>>
projectVars == <<savedProjects, lsProjects, lastCall>>
restoreVars == <<versionToRestore, isHistoryDialogVisible, isRestoreConfirmVisible>>
dialogVars == <<isClearConfirmVisible, isSaveDialogVisible,
  isLoadDialogVisible, saveDialogError>>
cloneVars == <<isCloneDialogVisible, repoUrl, isLoading, cloneError, fetches,
  fetched>>

autosaveVars == <<timers, lsCode, written>>

vars == <<controllerVars, ledgerVars, projectVars, restoreVars, dialogVars,
  cloneVars, autosaveVars, diffTarget, lsInitialPrompt, apiCall, fileReads, now>>

NoSource == [type |-> "none", name |-> EmptyText]
Source(type, name) == [type |-> type, name |-> name]
NoError == [op |-> "none", msg |-> "none"]
Error(op, msg) == [op |-> op, msg |-> msg]
NoCall == [op |-> "none"]
NoVersion == [code |-> NULL, timestamp |-> 0]
NoDiff == [original |-> NULL, modified |-> NULL]
NoProject == [generatedCode |-> NULL, initialPrompt |-> NULL, codeSourceInfo |-> NoSource]

\* lastCall records the most recent call of saveProject or deleteProject: its
\* arguments, whether the stored mapping had the name when it was called,
\* whether the store accepted the write, whether the call threw, and a bit
\* that flips at every call.
NoFetch == [url |-> NULL]
NoWrite == [code |-> NULL, accepted |-> FALSE]
NoCallYet == [fn |-> "none", name |-> EmptyText, project |-> NoProject,
              present |-> FALSE, accepted |-> FALSE, threw |-> FALSE,
              flip |-> FALSE]
Called(fn, name, project, writeOk, threw) ==
  [fn |-> fn, name |-> name, project |-> project,
   present |-> name \in DOMAIN getProjects(lsProjects),
   accepted |-> writeOk, threw |-> threw, flip |-> ~lastCall.flip]

isBusy == loadingState # "idle"

\* What a handler sees when it is triggered: the code it captures, and (kept
\* as history for the properties) the source, and the ledger in memory and in
\* the store.
Before ==
  [code |-> generatedCode, source |-> codeSourceInfo,
   ledger |-> versionHistory, stored |-> lsHistory]
isProjectLoaded == codeSourceInfo # NoSource

\* The mount effects: the project list and the ledger are read from the store.
Mounted(projectStore, historyStore) ==
  /\ prompt = EmptyText
  /\ refinementPrompt = EmptyText
  /\ initialPrompt = NULL
  /\ generatedCode = EmptyText
  /\ previousCode = NULL
  /\ activeTab = "preview"
  /\ loadingState = "idle"
  /\ error = NoError
  /\ codeSourceInfo = NoSource
  /\ lsProjects = projectStore
  /\ savedProjects = getProjects(projectStore)
  /\ lsHistory = historyStore
  /\ versionHistory = getHistory(historyStore)
  /\ versionToRestore = NoVersion
  /\ diffTarget = NoDiff
  /\ isClearConfirmVisible = FALSE
  /\ isSaveDialogVisible = FALSE
  /\ isLoadDialogVisible = FALSE
  /\ isHistoryDialogVisible = FALSE
  /\ isRestoreConfirmVisible = FALSE
  /\ saveDialogError = "none"
  /\ lsInitialPrompt = Absent
  /\ apiCall = NoCall
  /\ fileReads = FALSE
  /\ now = 0
  /\ lastCall = NoCallYet
  /\ isCloneDialogVisible = FALSE
  /\ repoUrl = EmptyText
  /\ isLoading = FALSE
  /\ cloneError = NULL
  /\ fetches = <<>>
  /\ fetched = NoFetch
  /\ timers = <<EmptyText>>
  /\ lsCode = Absent
  /\ written = NoWrite

\* The debounced persistence effect of the code: when the code changes, the
\* cleanup clears the pending timer and a new one is set with the new code.
\* It has run once at mount, with the empty code.
persistCode_noClear ==
  timers' = IF generatedCode' # generatedCode
              THEN Append(timers, generatedCode') ELSE timers

persistCode ==
  timers' = IF generatedCode' # generatedCode THEN <<generatedCode'>> ELSE timers

\* A pending timer fires: the code it was set with is written, or the key is
\* removed when that code is empty
timerFires(k) ==
  /\ k \in 1..Len(timers)
  /\ timers' = SubSeq(timers, 1, k - 1) \o SubSeq(timers, k + 1, Len(timers))
  /\ IF Truthy(timers[k])
       THEN \E writeOk \in BOOLEAN :
              /\ lsCode' = IF writeOk THEN Json(timers[k]) ELSE lsCode
              /\ written' = [code |-> timers[k], accepted |-> writeOk]
       ELSE /\ lsCode' = Absent
            /\ written' = [code |-> timers[k], accepted |-> TRUE]
  /\ UNCHANGED <<controllerVars, ledgerVars, projectVars, restoreVars, dialogVars,
       cloneVars, diffTarget, lsInitialPrompt, apiCall, fileReads, now>>

\* Date.now() inside addToHistory
Tick ==
  /\ now < MaxTime
  /\ now' = now + 1
  /\ UNCHANGED <<controllerVars, ledgerVars, projectVars, restoreVars, dialogVars,
       diffTarget, lsInitialPrompt, apiCall, fileReads>>
  /\ UNCHANGED cloneVars
  /\ persistCode
  /\ UNCHANGED <<lsCode, written>>

\* setVersionHistory(storage.addToHistory(code))
AppendToLedger(code, writeOk) ==
  LET r == addToHistory(lsHistory, code, now, writeOk)
  IN /\ versionHistory' = r.ret
     /\ lsHistory' = r.store

\* The specifications explore short ledgers (fewer than limit entries when an
\* appending operation starts) and ledgers at the capacity bound.
Room(limit) ==
  LET n == Len(getHistory(lsHistory))
  IN n < limit \/ n >= MAX_HISTORY_ITEMS - 1

(* ------------------------------ generate ------------------------------ *)
setPrompt(text) ==
  /\ ~isBusy
  /\ ~isProjectLoaded
  /\ prompt' = text
  /\ UNCHANGED <<refinementPrompt, initialPrompt, generatedCode, previousCode,
       activeTab, loadingState, error, codeSourceInfo>>
  /\ UNCHANGED <<ledgerVars, projectVars, restoreVars, dialogVars,
       diffTarget, lsInitialPrompt, apiCall, fileReads, now>>
  /\ UNCHANGED cloneVars
  /\ persistCode
  /\ UNCHANGED <<lsCode, written>>

\* handleGenerate up to its await; the Generate button is rendered when no
\* source is loaded and is disabled while busy.
handleGenerate(limit) ==
  /\ ~isBusy
  /\ ~isProjectLoaded
  /\ Room(limit)
  /\ IF trim(prompt) = EmptyText
       THEN /\ error' = Error("generate", "validation")
            /\ UNCHANGED <<previousCode, loadingState, initialPrompt,
                 lsInitialPrompt, apiCall>>
       ELSE /\ previousCode' = generatedCode
            /\ loadingState' = "generate"
            /\ error' = NoError
            /\ initialPrompt' = prompt
            /\ \E writeOk \in BOOLEAN :
                 IF writeOk
                   THEN /\ lsInitialPrompt' = Json(prompt)
                        /\ apiCall' = [op |-> "generate", prompt |-> prompt,
                                       before |-> Before, settled |-> FALSE]
                   ELSE \* setItem throws before the try block: the handler ends
                        /\ UNCHANGED <<lsInitialPrompt, apiCall>>
  /\ UNCHANGED <<prompt, refinementPrompt, generatedCode, activeTab, codeSourceInfo>>
  /\ UNCHANGED <<ledgerVars, projectVars, restoreVars, dialogVars,
       diffTarget, fileReads, now>>
  /\ UNCHANGED cloneVars
  /\ persistCode
  /\ UNCHANGED <<lsCode, written>>

\* The promise of callApi settles.
apiSettles(reply) ==
  /\ apiCall # NoCall
  /\ ~apiCall.settled
  /\ apiCall' = [apiCall EXCEPT !.settled = TRUE] @@ [result |-> callApi(reply)]
  /\ UNCHANGED <<controllerVars, ledgerVars, projectVars, restoreVars, dialogVars,
       diffTarget, lsInitialPrompt, fileReads, now>>
  /\ UNCHANGED cloneVars
  /\ persistCode
  /\ UNCHANGED <<lsCode, written>>

Settled(op) == apiCall # NoCall /\ apiCall.op = op /\ apiCall.settled

\* generateResolved giving up when the ledger was cleared during the call
generateResolved_cancelled ==
  /\ Settled("generate")
  /\ apiCall.result.ok
  /\ LET code == apiCall.result.text IN
       IF lsHistory = Absent /\ apiCall.before.stored # Absent
         THEN UNCHANGED <<generatedCode, codeSourceInfo, ledgerVars>>
         ELSE /\ generatedCode' = code
              /\ codeSourceInfo' = Source("prompt", apiCall.prompt)
              /\ \E writeOk \in BOOLEAN : AppendToLedger(code, writeOk)
  /\ loadingState' = "idle"
  /\ apiCall' = NoCall
  /\ UNCHANGED <<prompt, refinementPrompt, initialPrompt, previousCode, activeTab, error>>
  /\ UNCHANGED <<projectVars, restoreVars, dialogVars,
       diffTarget, lsInitialPrompt, fileReads, now>>
  /\ UNCHANGED cloneVars
  /\ persistCode
  /\ UNCHANGED <<lsCode, written>>

\* handleGenerate after its await: try, catch and finally
generateResolved ==
  /\ Settled("generate")
  /\ apiCall.result.ok
  /\ LET code == apiCall.result.text IN
       /\ generatedCode' = code
       /\ codeSourceInfo' = Source("prompt", apiCall.prompt)
       /\ \E writeOk \in BOOLEAN : AppendToLedger(code, writeOk)
  /\ loadingState' = "idle"
  /\ apiCall' = NoCall
  /\ UNCHANGED <<prompt, refinementPrompt, initialPrompt, previousCode, activeTab, error>>
  /\ UNCHANGED <<projectVars, restoreVars, dialogVars,
       diffTarget, lsInitialPrompt, fileReads, now>>
  /\ UNCHANGED cloneVars
  /\ persistCode
  /\ UNCHANGED <<lsCode, written>>

\* generateRejected without setError
generateRejected_noError ==
  /\ Settled("generate")
  /\ ~apiCall.result.ok
  /\ initialPrompt' = NULL
  /\ previousCode' = NULL
  /\ lsInitialPrompt' = Absent
  /\ loadingState' = "idle"
  /\ apiCall' = NoCall
  /\ UNCHANGED <<prompt, refinementPrompt, generatedCode, activeTab, codeSourceInfo, error>>
  /\ UNCHANGED <<ledgerVars, projectVars, restoreVars, dialogVars,
       diffTarget, fileReads, now>>
  /\ UNCHANGED cloneVars
  /\ persistCode
  /\ UNCHANGED <<lsCode, written>>

generateRejected ==
  /\ Settled("generate")
  /\ ~apiCall.result.ok
  /\ error' = Error("Generation failed", apiCall.result.msg)
  /\ initialPrompt' = NULL
  /\ previousCode' = NULL
  /\ lsInitialPrompt' = Absent
  /\ loadingState' = "idle"
  /\ apiCall' = NoCall
  /\ UNCHANGED <<prompt, refinementPrompt, generatedCode, activeTab, codeSourceInfo>>
  /\ UNCHANGED <<ledgerVars, projectVars, restoreVars, dialogVars,
       diffTarget, fileReads, now>>
  /\ UNCHANGED cloneVars
  /\ persistCode
  /\ UNCHANGED <<lsCode, written>>

(* ------------------------------- refine ------------------------------- *)
setRefinementPrompt(text) ==
  /\ ~isBusy
  /\ isProjectLoaded
  /\ refinementPrompt' = text
  /\ UNCHANGED <<prompt, initialPrompt, generatedCode, previousCode,
       activeTab, loadingState, error, codeSourceInfo>>
  /\ UNCHANGED <<ledgerVars, projectVars, restoreVars, dialogVars,
       diffTarget, lsInitialPrompt, apiCall, fileReads, now>>
  /\ UNCHANGED cloneVars
  /\ persistCode
  /\ UNCHANGED <<lsCode, written>>

\* handleRefine behind a Refine button that is not disabled while busy
handleRefine_notDisabled(limit) ==
  /\ isProjectLoaded
  /\ Room(limit)
  /\ IF trim(refinementPrompt) = EmptyText
       THEN /\ error' = Error("refine", "validation")
            /\ UNCHANGED <<previousCode, loadingState, apiCall>>
       ELSE /\ previousCode' = generatedCode
            /\ loadingState' = "refine"
            /\ error' = NoError
            /\ apiCall' = [op |-> "refine",
                           prompt |-> IF initialPrompt = NULL THEN EmptyText
                                      ELSE initialPrompt,
                           before |-> Before, settled |-> FALSE]
  /\ UNCHANGED <<prompt, refinementPrompt, initialPrompt, generatedCode,
       activeTab, codeSourceInfo>>
  /\ UNCHANGED <<ledgerVars, projectVars, restoreVars, dialogVars,
       diffTarget, lsInitialPrompt, fileReads, now>>
  /\ UNCHANGED cloneVars
  /\ persistCode
  /\ UNCHANGED <<lsCode, written>>

\* handleRefine up to its await; the Refine button is rendered when a source
\* is loaded and is disabled while busy.
handleRefine(limit) ==
  /\ ~isBusy
  /\ isProjectLoaded
  /\ Room(limit)
  /\ IF trim(refinementPrompt) = EmptyText
       THEN /\ error' = Error("refine", "validation")
            /\ UNCHANGED <<previousCode, loadingState, apiCall>>
       ELSE /\ previousCode' = generatedCode
            /\ loadingState' = "refine"
            /\ error' = NoError
            /\ apiCall' = [op |-> "refine",
                           prompt |-> IF initialPrompt = NULL THEN EmptyText
                                      ELSE initialPrompt,
                           before |-> Before, settled |-> FALSE]
  /\ UNCHANGED <<prompt, refinementPrompt, initialPrompt, generatedCode,
       activeTab, codeSourceInfo>>
  /\ UNCHANGED <<ledgerVars, projectVars, restoreVars, dialogVars,
       diffTarget, lsInitialPrompt, fileReads, now>>
  /\ UNCHANGED cloneVars
  /\ persistCode
  /\ UNCHANGED <<lsCode, written>>

\* refineResolved naming the prompt as the source, as generate does
refineResolved_setsSource ==
  /\ Settled("refine")
  /\ apiCall.result.ok
  /\ LET code == apiCall.result.text IN
       /\ generatedCode' = code
       /\ refinementPrompt' = EmptyText
       /\ \E writeOk \in BOOLEAN : AppendToLedger(code, writeOk)
  /\ codeSourceInfo' = Source("prompt", apiCall.prompt)
  /\ loadingState' = "idle"
  /\ apiCall' = NoCall
  /\ UNCHANGED <<prompt, initialPrompt, previousCode, activeTab, error>>
  /\ UNCHANGED <<projectVars, restoreVars, dialogVars,
       diffTarget, lsInitialPrompt, fileReads, now>>
  /\ UNCHANGED cloneVars
  /\ persistCode
  /\ UNCHANGED <<lsCode, written>>

refineResolved ==
  /\ Settled("refine")
  /\ apiCall.result.ok
  /\ LET code == apiCall.result.text IN
       /\ generatedCode' = code
       /\ refinementPrompt' = EmptyText
       /\ \E writeOk \in BOOLEAN : AppendToLedger(code, writeOk)
  /\ loadingState' = "idle"
  /\ apiCall' = NoCall
  /\ UNCHANGED <<prompt, initialPrompt, previousCode, activeTab, error, codeSourceInfo>>
  /\ UNCHANGED <<projectVars, restoreVars, dialogVars,
       diffTarget, lsInitialPrompt, fileReads, now>>
  /\ UNCHANGED cloneVars
  /\ persistCode
  /\ UNCHANGED <<lsCode, written>>

\* refineRejected without setPreviousCode(null)
refineRejected_keepsPrevious ==
  /\ Settled("refine")
  /\ ~apiCall.result.ok
  /\ error' = Error("Refinement failed", apiCall.result.msg)
  /\ loadingState' = "idle"
  /\ apiCall' = NoCall
  /\ UNCHANGED <<prompt, refinementPrompt, initialPrompt, generatedCode,
       activeTab, codeSourceInfo, previousCode>>
  /\ UNCHANGED <<ledgerVars, projectVars, restoreVars, dialogVars,
       diffTarget, lsInitialPrompt, fileReads, now>>
  /\ UNCHANGED cloneVars
  /\ persistCode
  /\ UNCHANGED <<lsCode, written>>

refineRejected ==
  /\ Settled("refine")
  /\ ~apiCall.result.ok
  /\ error' = Error("Refinement failed", apiCall.result.msg)
  /\ previousCode' = NULL
  /\ loadingState' = "idle"
  /\ apiCall' = NoCall
  /\ UNCHANGED <<prompt, refinementPrompt, initialPrompt, generatedCode,
       activeTab, codeSourceInfo>>
  /\ UNCHANGED <<ledgerVars, projectVars, restoreVars, dialogVars,
       diffTarget, lsInitialPrompt, fileReads, now>>
  /\ UNCHANGED cloneVars
  /\ persistCode
  /\ UNCHANGED <<lsCode, written>>

(* ------------------------------ clear all ----------------------------- *)
requestClear ==
  /\ ~isBusy
  /\ isClearConfirmVisible' = TRUE
  /\ UNCHANGED <<isSaveDialogVisible, isLoadDialogVisible, saveDialogError>>
  /\ UNCHANGED <<controllerVars, ledgerVars, projectVars, restoreVars,
       diffTarget, lsInitialPrompt, apiCall, fileReads, now>>
  /\ UNCHANGED cloneVars
  /\ persistCode
  /\ UNCHANGED <<lsCode, written>>

cancelClear ==
  /\ isClearConfirmVisible
  /\ isClearConfirmVisible' = FALSE
  /\ UNCHANGED <<isSaveDialogVisible, isLoadDialogVisible, saveDialogError>>
  /\ UNCHANGED <<controllerVars, ledgerVars, projectVars, restoreVars,
       diffTarget, lsInitialPrompt, apiCall, fileReads, now>>
  /\ UNCHANGED cloneVars
  /\ persistCode
  /\ UNCHANGED <<lsCode, written>>

\* confirmClear without removeItem of the ledger key and setVersionHistory([])
confirmClear_keepsLedger ==
  /\ isClearConfirmVisible
  /\ prompt' = EmptyText
  /\ refinementPrompt' = EmptyText
  /\ generatedCode' = EmptyText
  /\ previousCode' = NULL
  /\ initialPrompt' = NULL
  /\ error' = NoError
  /\ activeTab' = "preview"
  /\ codeSourceInfo' = NoSource
  /\ versionHistory' = addToHistory(lsHistory, EmptyText, now, TRUE).ret
  /\ UNCHANGED lsHistory
  /\ lsInitialPrompt' = Absent
  /\ isClearConfirmVisible' = FALSE
  /\ UNCHANGED <<loadingState, isSaveDialogVisible, isLoadDialogVisible, saveDialogError>>
  /\ UNCHANGED <<projectVars, restoreVars, diffTarget, apiCall, fileReads, now>>
  /\ UNCHANGED cloneVars
  /\ persistCode
  /\ lsCode' = Absent
  /\ UNCHANGED written

\* addToHistory('') returns the stored ledger and writes nothing; the ledger
\* key is then removed and the in-memory ledger set to [].
confirmClear ==
  /\ isClearConfirmVisible
  /\ prompt' = EmptyText
  /\ refinementPrompt' = EmptyText
  /\ generatedCode' = EmptyText
  /\ previousCode' = NULL
  /\ initialPrompt' = NULL
  /\ error' = NoError
  /\ activeTab' = "preview"
  /\ codeSourceInfo' = NoSource
  /\ lsHistory' = Absent
  /\ versionHistory' = <<>>
  /\ lsInitialPrompt' = Absent
  /\ isClearConfirmVisible' = FALSE
  /\ UNCHANGED <<loadingState, isSaveDialogVisible, isLoadDialogVisible, saveDialogError>>
  /\ UNCHANGED <<projectVars, restoreVars, diffTarget, apiCall, fileReads, now>>
  /\ UNCHANGED cloneVars
  /\ persistCode
  /\ lsCode' = Absent
  /\ UNCHANGED written

handleErrorDismiss ==
  /\ error # NoError
  /\ error' = NoError
  /\ UNCHANGED <<prompt, refinementPrompt, initialPrompt, generatedCode,
       previousCode, activeTab, loadingState, codeSourceInfo>>
  /\ UNCHANGED <<ledgerVars, projectVars, restoreVars, dialogVars,
       diffTarget, lsInitialPrompt, apiCall, fileReads, now>>
  /\ UNCHANGED cloneVars
  /\ persistCode
  /\ UNCHANGED <<lsCode, written>>

setActiveTab(tab) ==
  /\ activeTab # tab
  /\ activeTab' = tab
  /\ UNCHANGED <<prompt, refinementPrompt, initialPrompt, generatedCode,
       previousCode, loadingState, error, codeSourceInfo>>
  /\ UNCHANGED <<ledgerVars, projectVars, restoreVars, dialogVars,
       diffTarget, lsInitialPrompt, apiCall, fileReads, now>>
  /\ UNCHANGED cloneVars
  /\ persistCode
  /\ UNCHANGED <<lsCode, written>>

(* ----------------------------- manual edit ---------------------------- *)
\* OutputPanel renders the editors only when the output is visible.
isOutputVisible == loadingState # "generate" /\ Truthy(generatedCode)

\* onCodeChange keeping the text it replaces in previousCode
onCodeChange_snapshots(text) ==
  /\ isOutputVisible
  /\ text # generatedCode
  /\ previousCode' = generatedCode
  /\ generatedCode' = text
  /\ UNCHANGED <<prompt, refinementPrompt, initialPrompt,
       activeTab, loadingState, error, codeSourceInfo>>
  /\ UNCHANGED <<ledgerVars, projectVars, restoreVars, dialogVars,
       diffTarget, lsInitialPrompt, apiCall, fileReads, now>>
  /\ UNCHANGED cloneVars
  /\ persistCode
  /\ UNCHANGED <<lsCode, written>>

onCodeChange(text) ==
  /\ isOutputVisible
  /\ text # generatedCode
  /\ generatedCode' = text
  /\ UNCHANGED <<prompt, refinementPrompt, initialPrompt, previousCode,
       activeTab, loadingState, error, codeSourceInfo>>
  /\ UNCHANGED <<ledgerVars, projectVars, restoreVars, dialogVars,
       diffTarget, lsInitialPrompt, apiCall, fileReads, now>>
  /\ UNCHANGED cloneVars
  /\ persistCode
  /\ UNCHANGED <<lsCode, written>>

(* ----------------------------- file import ---------------------------- *)
\* The Upload button (disabled while busy) starts a FileReader; its onload
\* callback runs later.
handleFileChange ==
  /\ ~isBusy
  /\ ~fileReads
  /\ fileReads' = TRUE
  /\ UNCHANGED <<controllerVars, ledgerVars, projectVars, restoreVars, dialogVars,
       diffTarget, lsInitialPrompt, apiCall, now>>
  /\ UNCHANGED cloneVars
  /\ persistCode
  /\ UNCHANGED <<lsCode, written>>

\* reader.onload -> handleFileUpload(content, file.name)
handleFileUpload(fileContent, fileName, limit) ==
  /\ fileReads
  /\ Room(limit)
  /\ fileReads' = FALSE
  /\ prompt' = EmptyText
  /\ refinementPrompt' = EmptyText
  /\ error' = NoError
  /\ activeTab' = "preview"
  /\ previousCode' = NULL
  /\ initialPrompt' = ImportedPrompt
  /\ codeSourceInfo' = Source("file", fileName)
  /\ LET processedCode == processUploadedHtml(fileContent) IN
       /\ generatedCode' = processedCode
       /\ \E promptWriteOk \in BOOLEAN :
            IF promptWriteOk
              THEN /\ lsInitialPrompt' = Json(ImportedPrompt)
                   /\ \E writeOk \in BOOLEAN : AppendToLedger(processedCode, writeOk)
              ELSE \* setItem throws: addToHistory is not reached
                   UNCHANGED <<lsInitialPrompt, ledgerVars>>
  /\ UNCHANGED loadingState
  /\ UNCHANGED <<projectVars, restoreVars, dialogVars, diffTarget, apiCall, now>>
  /\ UNCHANGED cloneVars
  /\ persistCode
  /\ UNCHANGED <<lsCode, written>>

(* --------------------------- save / load ------------------------------ *)
\* The Save button is disabled while busy and when there is no code; the
\* dialog resets its own error when it opens.
requestSave ==
  /\ ~isBusy
  /\ Truthy(generatedCode)
  /\ isSaveDialogVisible' = TRUE
  /\ saveDialogError' = IF isSaveDialogVisible THEN saveDialogError ELSE "none"
  /\ UNCHANGED <<isClearConfirmVisible, isLoadDialogVisible>>
  /\ UNCHANGED <<controllerVars, ledgerVars, projectVars, restoreVars,
       diffTarget, lsInitialPrompt, apiCall, fileReads, now>>
  /\ UNCHANGED cloneVars
  /\ persistCode
  /\ UNCHANGED <<lsCode, written>>

closeSaveDialog ==
  /\ isSaveDialogVisible
  /\ isSaveDialogVisible' = FALSE
  /\ UNCHANGED <<isClearConfirmVisible, isLoadDialogVisible, saveDialogError>>
  /\ UNCHANGED <<controllerVars, ledgerVars, projectVars, restoreVars,
       diffTarget, lsInitialPrompt, apiCall, fileReads, now>>
  /\ UNCHANGED cloneVars
  /\ persistCode
  /\ UNCHANGED <<lsCode, written>>

CurrentProject ==
  [generatedCode |-> generatedCode, initialPrompt |-> initialPrompt,
   codeSourceInfo |-> codeSourceInfo]

\* handleSaveClick calling onClose in its finally block
handleSaveClick_closesAnyway(projectName) ==
  /\ isSaveDialogVisible
  /\ IF trim(projectName) = EmptyText
       THEN /\ saveDialogError' = "Please enter a project name."
            /\ UNCHANGED <<isSaveDialogVisible, error, projectVars>>
       ELSE \E writeOk \in BOOLEAN :
              LET r == saveProject(lsProjects, trim(projectName), CurrentProject, writeOk)
              IN /\ lastCall' = Called("saveProject", trim(projectName),
                                       CurrentProject, writeOk, r.threw)
                 /\ isSaveDialogVisible' = FALSE
                 /\ IF ~r.threw
                      THEN /\ lsProjects' = r.store
                           /\ savedProjects' = getProjects(r.store)
                           /\ saveDialogError' = "none"
                           /\ UNCHANGED error
                      ELSE /\ error' = Error("save", "Could not save the project.")
                           /\ saveDialogError' = "Could not save the project."
                           /\ UNCHANGED savedProjects
                           /\ lsProjects' = r.store
  /\ UNCHANGED <<prompt, refinementPrompt, initialPrompt, generatedCode,
       previousCode, activeTab, loadingState, codeSourceInfo>>
  /\ UNCHANGED <<isClearConfirmVisible, isLoadDialogVisible>>
  /\ UNCHANGED <<ledgerVars, restoreVars, diffTarget, lsInitialPrompt,
       apiCall, fileReads, now>>
  /\ UNCHANGED cloneVars
  /\ persistCode
  /\ UNCHANGED <<lsCode, written>>

\* SaveDialog.handleSaveClick with the typed name, calling App.handleSave
handleSaveClick(projectName) ==
  /\ isSaveDialogVisible
  /\ IF trim(projectName) = EmptyText
       THEN /\ saveDialogError' = "Please enter a project name."
            /\ UNCHANGED <<isSaveDialogVisible, error, projectVars>>
       ELSE \E writeOk \in BOOLEAN :
              LET r == saveProject(lsProjects, trim(projectName), CurrentProject, writeOk)
              IN /\ lastCall' = Called("saveProject", trim(projectName),
                                       CurrentProject, writeOk, r.threw)
                 /\ IF ~r.threw
                      THEN /\ lsProjects' = r.store
                           /\ savedProjects' = getProjects(r.store)
                           /\ saveDialogError' = "none"
                           /\ isSaveDialogVisible' = FALSE
                           /\ UNCHANGED error
                      ELSE /\ error' = Error("save", "Could not save the project.")
                           /\ saveDialogError' = "Could not save the project."
                           /\ UNCHANGED <<isSaveDialogVisible, savedProjects>>
                           /\ lsProjects' = r.store
  /\ UNCHANGED <<prompt, refinementPrompt, initialPrompt, generatedCode,
       previousCode, activeTab, loadingState, codeSourceInfo>>
  /\ UNCHANGED <<isClearConfirmVisible, isLoadDialogVisible>>
  /\ UNCHANGED <<ledgerVars, restoreVars, diffTarget, lsInitialPrompt,
       apiCall, fileReads, now>>
  /\ UNCHANGED cloneVars
  /\ persistCode
  /\ UNCHANGED <<lsCode, written>>

requestLoad ==
  /\ ~isBusy
  /\ savedProjects' = getProjects(lsProjects)
  /\ isLoadDialogVisible' = TRUE
  /\ UNCHANGED <<lsProjects, lastCall, isClearConfirmVisible, isSaveDialogVisible, saveDialogError>>
  /\ UNCHANGED <<controllerVars, ledgerVars, restoreVars,
       diffTarget, lsInitialPrompt, apiCall, fileReads, now>>
  /\ UNCHANGED cloneVars
  /\ persistCode
  /\ UNCHANGED <<lsCode, written>>

closeLoadDialog ==
  /\ isLoadDialogVisible
  /\ isLoadDialogVisible' = FALSE
  /\ UNCHANGED <<isClearConfirmVisible, isSaveDialogVisible, saveDialogError>>
  /\ UNCHANGED <<controllerVars, ledgerVars, projectVars, restoreVars,
       diffTarget, lsInitialPrompt, apiCall, fileReads, now>>
  /\ UNCHANGED cloneVars
  /\ persistCode
  /\ UNCHANGED <<lsCode, written>>

\* handleLoad taking the source descriptor stored in the project
handleLoad_storedSource(projectName, limit) ==
  /\ isLoadDialogVisible
  /\ projectName \in DOMAIN savedProjects
  /\ Room(limit)
  /\ LET project == savedProjects[projectName] IN
       /\ generatedCode' = project.generatedCode
       /\ initialPrompt' = project.initialPrompt
       /\ codeSourceInfo' = project.codeSourceInfo
       /\ previousCode' = NULL
       /\ refinementPrompt' = EmptyText
       /\ error' = NoError
       /\ \E writeOk \in BOOLEAN : AppendToLedger(project.generatedCode, writeOk)
  /\ isLoadDialogVisible' = FALSE
  /\ UNCHANGED <<prompt, activeTab, loadingState>>
  /\ UNCHANGED <<isClearConfirmVisible, isSaveDialogVisible, saveDialogError>>
  /\ UNCHANGED <<projectVars, restoreVars, diffTarget, lsInitialPrompt,
       apiCall, fileReads, now>>
  /\ UNCHANGED cloneVars
  /\ persistCode
  /\ UNCHANGED <<lsCode, written>>

\* LoadDialog.handleLoadClick: App.handleLoad, then onClose
handleLoad(projectName, limit) ==
  /\ isLoadDialogVisible
  /\ projectName \in DOMAIN savedProjects
  /\ Room(limit)
  /\ LET project == savedProjects[projectName] IN
       /\ generatedCode' = project.generatedCode
       /\ initialPrompt' = project.initialPrompt
       /\ codeSourceInfo' = Source("saved", projectName)
       /\ previousCode' = NULL
       /\ refinementPrompt' = EmptyText
       /\ error' = NoError
       /\ \E writeOk \in BOOLEAN : AppendToLedger(project.generatedCode, writeOk)
  /\ isLoadDialogVisible' = FALSE
  /\ UNCHANGED <<prompt, activeTab, loadingState>>
  /\ UNCHANGED <<isClearConfirmVisible, isSaveDialogVisible, saveDialogError>>
  /\ UNCHANGED <<projectVars, restoreVars, diffTarget, lsInitialPrompt,
       apiCall, fileReads, now>>
  /\ UNCHANGED cloneVars
  /\ persistCode
  /\ UNCHANGED <<lsCode, written>>

\* LoadDialog.handleDeleteConfirm: App.handleDelete
handleDelete(projectName) ==
  /\ isLoadDialogVisible
  /\ projectName \in DOMAIN savedProjects
  /\ \E writeOk \in BOOLEAN :
       LET r == deleteProject(lsProjects, projectName, writeOk)
       IN /\ lastCall' = Called("deleteProject", projectName, NoProject,
                                writeOk, r.threw)
          /\ IF ~r.threw
               THEN /\ lsProjects' = r.store
                    /\ savedProjects' = getProjects(r.store)
                    /\ UNCHANGED error
               ELSE /\ error' = Error("delete", "Could not delete the project.")
                    /\ lsProjects' = r.store
                    /\ UNCHANGED savedProjects
  /\ UNCHANGED <<prompt, refinementPrompt, initialPrompt, generatedCode,
       previousCode, activeTab, loadingState, codeSourceInfo>>
  /\ UNCHANGED <<ledgerVars, restoreVars, dialogVars, diffTarget, lsInitialPrompt,
       apiCall, fileReads, now>>
  /\ UNCHANGED cloneVars
  /\ persistCode
  /\ UNCHANGED <<lsCode, written>>

\* localStorage is shared by every tab of the origin: another tab of the
\* application saves or deletes a project.
otherTabSaves(projectName, project) ==
  /\ lsProjects' = saveProject(lsProjects, projectName, project, TRUE).store
  /\ UNCHANGED <<savedProjects, lastCall>>
  /\ UNCHANGED <<controllerVars, ledgerVars, restoreVars, dialogVars,
       diffTarget, lsInitialPrompt, apiCall, fileReads, now>>
  /\ UNCHANGED cloneVars
  /\ persistCode
  /\ UNCHANGED <<lsCode, written>>

otherTabDeletes(projectName) ==
  /\ projectName \in DOMAIN getProjects(lsProjects)
  /\ lsProjects' = deleteProject(lsProjects, projectName, TRUE).store
  /\ UNCHANGED <<savedProjects, lastCall>>
  /\ UNCHANGED <<controllerVars, ledgerVars, restoreVars, dialogVars,
       diffTarget, lsInitialPrompt, apiCall, fileReads, now>>
  /\ UNCHANGED cloneVars
  /\ persistCode
  /\ UNCHANGED <<lsCode, written>>

(* ------------------------- history and restore ------------------------ *)
handleHistoryRequest ==
  /\ ~isHistoryDialogVisible
  /\ isHistoryDialogVisible' = TRUE
  /\ UNCHANGED <<versionToRestore, isRestoreConfirmVisible>>
  /\ UNCHANGED <<controllerVars, ledgerVars, projectVars, dialogVars,
       diffTarget, lsInitialPrompt, apiCall, fileReads, now>>
  /\ UNCHANGED cloneVars
  /\ persistCode
  /\ UNCHANGED <<lsCode, written>>

closeHistoryDialog ==
  /\ isHistoryDialogVisible
  /\ isHistoryDialogVisible' = FALSE
  /\ UNCHANGED <<versionToRestore, isRestoreConfirmVisible>>
  /\ UNCHANGED <<controllerVars, ledgerVars, projectVars, dialogVars,
       diffTarget, lsInitialPrompt, apiCall, fileReads, now>>
  /\ UNCHANGED cloneVars
  /\ persistCode
  /\ UNCHANGED <<lsCode, written>>

\* The Restore and Compare buttons of entry i are disabled for the head.
handleRestoreRequest(i) ==
  /\ isHistoryDialogVisible
  /\ i \in 2..Len(versionHistory)
  /\ versionToRestore' = versionHistory[i]
  /\ isRestoreConfirmVisible' = TRUE
  /\ UNCHANGED isHistoryDialogVisible
  /\ UNCHANGED <<controllerVars, ledgerVars, projectVars, dialogVars,
       diffTarget, lsInitialPrompt, apiCall, fileReads, now>>
  /\ UNCHANGED cloneVars
  /\ persistCode
  /\ UNCHANGED <<lsCode, written>>

\* confirmRestore without setPreviousCode(generatedCode)
confirmRestore_noSnapshot(limit) ==
  /\ isRestoreConfirmVisible
  /\ Room(limit)
  /\ IF versionToRestore # NoVersion
       THEN /\ generatedCode' = versionToRestore.code
            /\ \E writeOk \in BOOLEAN : AppendToLedger(versionToRestore.code, writeOk)
            /\ UNCHANGED previousCode
       ELSE UNCHANGED <<previousCode, generatedCode, ledgerVars>>
  /\ versionToRestore' = NoVersion
  /\ isRestoreConfirmVisible' = FALSE
  /\ isHistoryDialogVisible' = FALSE
  /\ UNCHANGED <<prompt, refinementPrompt, initialPrompt, activeTab,
       loadingState, error, codeSourceInfo>>
  /\ UNCHANGED <<projectVars, dialogVars, diffTarget, lsInitialPrompt,
       apiCall, fileReads, now>>
  /\ UNCHANGED cloneVars
  /\ persistCode
  /\ UNCHANGED <<lsCode, written>>

confirmRestore(limit) ==
  /\ isRestoreConfirmVisible
  /\ Room(limit)
  /\ IF versionToRestore # NoVersion
       THEN /\ previousCode' = generatedCode
            /\ generatedCode' = versionToRestore.code
            /\ \E writeOk \in BOOLEAN : AppendToLedger(versionToRestore.code, writeOk)
       ELSE UNCHANGED <<previousCode, generatedCode, ledgerVars>>
  /\ versionToRestore' = NoVersion
  /\ isRestoreConfirmVisible' = FALSE
  /\ isHistoryDialogVisible' = FALSE
  /\ UNCHANGED <<prompt, refinementPrompt, initialPrompt, activeTab,
       loadingState, error, codeSourceInfo>>
  /\ UNCHANGED <<projectVars, dialogVars, diffTarget, lsInitialPrompt,
       apiCall, fileReads, now>>
  /\ UNCHANGED cloneVars
  /\ persistCode
  /\ UNCHANGED <<lsCode, written>>

cancelRestore ==
  /\ isRestoreConfirmVisible
  /\ versionToRestore' = NoVersion
  /\ isRestoreConfirmVisible' = FALSE
  /\ UNCHANGED isHistoryDialogVisible
  /\ UNCHANGED <<controllerVars, ledgerVars, projectVars, dialogVars,
       diffTarget, lsInitialPrompt, apiCall, fileReads, now>>
  /\ UNCHANGED cloneVars
  /\ persistCode
  /\ UNCHANGED <<lsCode, written>>

(* ------------------------------- compare ------------------------------ *)
\* handleCompareWithHistory putting the entry's code in the editor
handleCompareWithHistory_restores(i) ==
  /\ isHistoryDialogVisible
  /\ i \in 2..Len(versionHistory)
  /\ diffTarget' = [original |-> versionHistory[i].code, modified |-> generatedCode]
  /\ generatedCode' = versionHistory[i].code
  /\ activeTab' = "code"
  /\ isHistoryDialogVisible' = FALSE
  /\ UNCHANGED <<versionToRestore, isRestoreConfirmVisible>>
  /\ UNCHANGED <<prompt, refinementPrompt, initialPrompt,
       previousCode, loadingState, error, codeSourceInfo>>
  /\ UNCHANGED <<ledgerVars, projectVars, dialogVars, lsInitialPrompt,
       apiCall, fileReads, now>>
  /\ UNCHANGED cloneVars
  /\ persistCode
  /\ UNCHANGED <<lsCode, written>>

handleCompareWithHistory(i) ==
  /\ isHistoryDialogVisible
  /\ i \in 2..Len(versionHistory)
  /\ diffTarget' = [original |-> versionHistory[i].code, modified |-> generatedCode]
  /\ activeTab' = "code"
  /\ isHistoryDialogVisible' = FALSE
  /\ UNCHANGED <<versionToRestore, isRestoreConfirmVisible>>
  /\ UNCHANGED <<prompt, refinementPrompt, initialPrompt, generatedCode,
       previousCode, loadingState, error, codeSourceInfo>>
  /\ UNCHANGED <<ledgerVars, projectVars, dialogVars, lsInitialPrompt,
       apiCall, fileReads, now>>
  /\ UNCHANGED cloneVars
  /\ persistCode
  /\ UNCHANGED <<lsCode, written>>

\* The Compare / Close button of the code toolbar is rendered when the output
\* is visible, the code tab is active and previousCode is truthy.
CompareButtonVisible ==
  isOutputVisible /\ activeTab = "code" /\ previousCode # NULL /\ Truthy(previousCode)

handleCompareWithPrevious ==
  /\ CompareButtonVisible
  /\ diffTarget = NoDiff
  /\ diffTarget' = [original |-> previousCode, modified |-> generatedCode]
  /\ UNCHANGED <<controllerVars, ledgerVars, projectVars, restoreVars, dialogVars,
       lsInitialPrompt, apiCall, fileReads, now>>
  /\ UNCHANGED cloneVars
  /\ persistCode
  /\ UNCHANGED <<lsCode, written>>

onCloseDiff ==
  /\ CompareButtonVisible
  /\ diffTarget # NoDiff
  /\ diffTarget' = NoDiff
  /\ UNCHANGED <<controllerVars, ledgerVars, projectVars, restoreVars, dialogVars,
       lsInitialPrompt, apiCall, fileReads, now>>
  /\ UNCHANGED cloneVars
  /\ persistCode
  /\ UNCHANGED <<lsCode, written>>

(* --------------------- clone (GithubCloneDialog.tsx) ------------------ *)
\* A repository URL is a sequence of tokens: "H" is the scheme "https://",
\* "G" the host "github.com/", "/" the slash between owner and repository;
\* the tokens of NameChars stand for [a-zA-Z0-9_-]+.
NameChars == {"o", "r"}

\* An argument the caller leaves out
Undefined == <<"undefined">>

\* urlRegex of fetchRepoIndexHtml, unanchored
MatchesRepoUrl(url) ==
  \E i \in 1..(Len(url) - 4) :
    /\ url[i] = "H" /\ url[i + 1] = "G"
    /\ url[i + 2] \in NameChars /\ url[i + 3] = "/" /\ url[i + 4] \in NameChars

\* String.prototype.replace with a non-global pattern: the first match goes
RECURSIVE replaceFirst(_, _)
replaceFirst(text, pattern) ==
  IF Len(text) < Len(pattern) THEN text
  ELSE IF SubSeq(text, 1, Len(pattern)) = pattern
    THEN SubSeq(text, Len(pattern) + 1, Len(text))
    ELSE <<Head(text)>> \o replaceFirst(Tail(text), pattern)

\* The first match of urlRegex in the trimmed URL
MatchAt(url) ==
  CHOOSE i \in 1..(Len(url) - 4) :
    /\ url[i] = "H" /\ url[i + 1] = "G"
    /\ url[i + 2] \in NameChars /\ url[i + 3] = "/" /\ url[i + 4] \in NameChars
    /\ \A j \in 1..(i - 1) :
         ~(/\ url[j] = "H" /\ url[j + 1] = "G"
           /\ url[j + 2] \in NameChars /\ url[j + 3] = "/"
           /\ url[j + 4] \in NameChars)

\* A fetch() that rejects, and the responses it resolves with; the body of a
\* response is Unreadable when reading it (json(), text()) rejects
Rejects == [status |-> 0, body |-> [kind |-> "none"]]
Response(status, body) == [status |-> status, body |-> body]
NoBody == [kind |-> "none"]
Unreadable == [kind |-> "unreadable"]
Body(text) == [kind |-> "text", value |-> text]
ResponseOk(response) == response.status \in 200..299
statusText(response) ==
  IF response.status = 404 THEN "Not Found"
  ELSE IF response.status = 403 THEN "Forbidden"
  ELSE IF response.status = 500 THEN "Internal Server Error"
  ELSE "OK"

\* An entry of the listing
Entry(name, type, download_url) ==
  [name |-> name, type |-> type, download_url |-> download_url]

\* Array.prototype.find: the first entry named index.html that is a file,
\* or undefined
NoEntry == Entry("", "undefined", NULL)

RECURSIVE find(_)
find(contents) ==
  IF contents = <<>> THEN NoEntry
  ELSE IF Head(contents).name = "index.html" /\ Head(contents).type = "file"
    THEN Head(contents)
    ELSE find(Tail(contents))

Failure(text) == [ok |-> FALSE, text |-> text]
Returns(text) == [ok |-> TRUE, text |-> text]

\* fetchRepoIndexHtml testing response.ok before the 404 and 403 statuses
fetchRepoIndexHtml_okFirst(url, listing, download) ==
  IF ~MatchesRepoUrl(trim(url))
    THEN Failure(<<"Invalid GitHub repository URL">>)
  ELSE LET i == MatchAt(trim(url))
           owner == trim(url)[i + 2]
           repo == trim(url)[i + 4]
       IN
  IF listing = Rejects
    THEN Failure(<<"Network error. Could not connect to GitHub API.">>)
  ELSE IF ~ResponseOk(listing)
    THEN Failure(<<"Could not fetch repository contents. Status:",
                    statusText(listing)>>)
  ELSE IF listing.status = 404
    THEN Failure(<<"Repository not found at", owner, "/", repo>>)
  ELSE IF listing.status = 403
    THEN Failure(<<"GitHub API rate limit exceeded">>)
  ELSE IF listing.body = Unreadable
    THEN Failure(<<"SyntaxError">>)
  ELSE LET indexHtmlFile == find(listing.body.value) IN
  IF indexHtmlFile = NoEntry \/ indexHtmlFile.download_url = NULL
    THEN Failure(<<"'index.html' not found in the root of the repository.">>)
  ELSE IF download = Rejects
    THEN Failure(<<"Network error. Could not download index.html.">>)
  ELSE IF ~ResponseOk(download)
    THEN Failure(<<"Could not download index.html. Status:",
                    statusText(download)>>)
  ELSE IF download.body = Unreadable
    THEN Failure(<<"TypeError", "body">>)
  ELSE Returns(download.body.value)

\* fetchRepoIndexHtml(repoUrl) where the listing request gets `listing` and
\* the download request gets `download`
fetchRepoIndexHtml(url, listing, download) ==
  IF ~MatchesRepoUrl(trim(url))
    THEN Failure(<<"Invalid GitHub repository URL">>)
  ELSE LET i == MatchAt(trim(url))
           owner == trim(url)[i + 2]
           repo == trim(url)[i + 4]
       IN
  IF listing = Rejects
    THEN Failure(<<"Network error. Could not connect to GitHub API.">>)
  ELSE IF listing.status = 404
    THEN Failure(<<"Repository not found at", owner, "/", repo>>)
  ELSE IF listing.status = 403
    THEN Failure(<<"GitHub API rate limit exceeded">>)
  ELSE IF ~ResponseOk(listing)
    THEN Failure(<<"Could not fetch repository contents. Status:",
                    statusText(listing)>>)
  ELSE IF listing.body = Unreadable
    THEN Failure(<<"SyntaxError">>)
  ELSE LET indexHtmlFile == find(listing.body.value) IN
  IF indexHtmlFile = NoEntry \/ indexHtmlFile.download_url = NULL
    THEN Failure(<<"'index.html' not found in the root of the repository.">>)
  ELSE IF download = Rejects
    THEN Failure(<<"Network error. Could not download index.html.">>)
  ELSE IF ~ResponseOk(download)
    THEN Failure(<<"Could not download index.html. Status:",
                    statusText(download)>>)
  ELSE IF download.body = Unreadable
    THEN Failure(<<"TypeError", "body">>)
  ELSE Returns(download.body.value)

\* The Clone button of the control panel: the dialog opens and resets itself
onCloneRequest ==
  /\ ~isBusy
  /\ ~isCloneDialogVisible
  /\ isCloneDialogVisible' = TRUE
  /\ repoUrl' = EmptyText
  /\ cloneError' = NULL
  /\ isLoading' = FALSE
  /\ UNCHANGED <<fetches, fetched>>
  /\ UNCHANGED <<controllerVars, ledgerVars, projectVars, restoreVars, dialogVars,
       diffTarget, lsInitialPrompt, apiCall, fileReads, now>>
  /\ persistCode
  /\ UNCHANGED <<lsCode, written>>

\* onClose: the Escape key at any time, the Cancel button unless loading
closeCloneDialog ==
  /\ isCloneDialogVisible
  /\ isCloneDialogVisible' = FALSE
  /\ UNCHANGED <<repoUrl, isLoading, cloneError, fetches, fetched>>
  /\ UNCHANGED <<controllerVars, ledgerVars, projectVars, restoreVars, dialogVars,
       diffTarget, lsInitialPrompt, apiCall, fileReads, now>>
  /\ persistCode
  /\ UNCHANGED <<lsCode, written>>

\* The URL input, disabled while loading
setRepoUrl(url) ==
  /\ isCloneDialogVisible
  /\ ~isLoading
  /\ repoUrl' = url
  /\ UNCHANGED <<isCloneDialogVisible, isLoading, cloneError, fetches, fetched>>
  /\ UNCHANGED <<controllerVars, ledgerVars, projectVars, restoreVars, dialogVars,
       diffTarget, lsInitialPrompt, apiCall, fileReads, now>>
  /\ persistCode
  /\ UNCHANGED <<lsCode, written>>

\* handleCloneClick up to its await
handleCloneClick ==
  /\ isCloneDialogVisible
  /\ ~isLoading
  /\ IF trim(repoUrl) = EmptyText
       THEN /\ cloneError' = <<"Please enter a repository URL.">>
            /\ UNCHANGED <<isLoading, fetches>>
       ELSE /\ Len(fetches) < MaxFetches
            /\ isLoading' = TRUE
            /\ cloneError' = NULL
            /\ fetches' = Append(fetches, repoUrl)
  /\ UNCHANGED <<isCloneDialogVisible, repoUrl, fetched>>
  /\ UNCHANGED <<controllerVars, ledgerVars, projectVars, restoreVars, dialogVars,
       diffTarget, lsInitialPrompt, apiCall, fileReads, now>>
  /\ persistCode
  /\ UNCHANGED <<lsCode, written>>

\* App.handleClone(fileContent, repoUrl); threw is the exception its caller
\* sees, NULL when it returns
handleClone(fileContent, repoUrlArg, limit, threw) ==
  IF repoUrlArg = Undefined
    THEN \* repoUrl.replace is evaluated before handleFileUpload is entered
         /\ threw = <<"TypeError">>
         /\ UNCHANGED <<controllerVars, ledgerVars, lsInitialPrompt,
              isCloneDialogVisible>>
    ELSE /\ Room(limit)
         /\ prompt' = EmptyText
         /\ refinementPrompt' = EmptyText
         /\ error' = NoError
         /\ activeTab' = "preview"
         /\ previousCode' = NULL
         /\ initialPrompt' = ImportedPrompt
         /\ LET processedCode == processUploadedHtml(fileContent) IN
              /\ generatedCode' = processedCode
              /\ \E promptWriteOk \in BOOLEAN :
                   IF promptWriteOk
                     THEN /\ lsInitialPrompt' = Json(ImportedPrompt)
                          /\ \E writeOk \in BOOLEAN :
                               AppendToLedger(processedCode, writeOk)
                          /\ codeSourceInfo' =
                               Source("github", replaceFirst(repoUrlArg, <<"H", "G">>))
                          /\ isCloneDialogVisible' = FALSE
                          /\ threw = NULL
                     ELSE /\ codeSourceInfo' =
                               Source("file", replaceFirst(repoUrlArg, <<"H">>))
                          /\ threw = <<"QuotaExceededError">>
                          /\ UNCHANGED <<lsInitialPrompt, ledgerVars,
                               isCloneDialogVisible>>
         /\ UNCHANGED loadingState

\* handleCloneClick from its await on: the fetch settles, onClone is called
\* with the text alone, the catch block shows whatever was thrown
cloneSettles(k, listing, download, limit) ==
  /\ k \in 1..Len(fetches)
  /\ fetches' = SubSeq(fetches, 1, k - 1) \o SubSeq(fetches, k + 1, Len(fetches))
  /\ LET settled == fetchRepoIndexHtml(fetches[k], listing, download) IN
       /\ fetched' = [url |-> fetches[k], listing |-> listing,
                      download |-> download, result |-> settled]
       /\ IF settled.ok
            THEN \E threw \in {NULL, <<"TypeError">>, <<"QuotaExceededError">>} :
                   /\ handleClone(settled.text, Undefined, limit, threw)
                   /\ cloneError' = IF threw = NULL THEN cloneError ELSE threw
            ELSE /\ cloneError' = settled.text
                 /\ UNCHANGED <<controllerVars, ledgerVars, lsInitialPrompt,
                      isCloneDialogVisible>>
  /\ isLoading' = FALSE
  /\ UNCHANGED repoUrl
  /\ UNCHANGED <<projectVars, restoreVars, dialogVars,
       diffTarget, apiCall, fileReads, now>>
  /\ persistCode
  /\ UNCHANGED <<lsCode, written>>

(* ---------------------------------------------------------------------- *)
(* Inputs                                                                 *)
(* ---------------------------------------------------------------------- *)
CodeA == <<"A">>
CodeB == <<"B">>
CodeE == <<"E">>
Blank == <<WS>>
PromptP == <<"p">>
RequestR == <<"r">>
FileF == <<"f">>
NameN == <<"n">>
NameM == <<"m">>

Throws(msg) == [kind |-> "throw", msg |-> msg]
Responds(candidate, finishReason, text) ==
  [kind |-> "response", candidate |-> candidate, finishReason |-> finishReason,
   text |-> text]

(* ---------------------------------------------------------------------- *)
(* SpecLedger: every operation that reaches the ledger, from an empty, an  *)
(* unreadable or an almost full stored ledger.  The clock stands still, so *)
(* entries differ by their code only.  The user opens a dialog or picks a  *)
(* file only when no dialog is open and no file is being read; generate and *)
(* refine start at any time the buttons allow.                             *)
(* ---------------------------------------------------------------------- *)
NormA == processUploadedHtml(CodeA)

AlternatingLedger(n) ==
  [i \in 1..n |-> [code |-> IF i % 2 = 1 THEN CodeA ELSE NormA, timestamp |-> 0]]

LedgerStores == {Absent, Corrupt, Json(AlternatingLedger(MAX_HISTORY_ITEMS - 1))}

\* Two projects of an earlier session; the second was saved with blank code.
LedgerProjects ==
  Json([n \in {NameN, NameM} |->
          [generatedCode |-> IF n = NameN THEN CodeA ELSE Blank,
           initialPrompt |-> NULL, codeSourceInfo |-> NoSource]])

LedgerReplies ==
  { Throws("fetch"),
    Responds(TRUE, "STOP", CodeA),
    Responds(TRUE, "STOP", NormA),
    Responds(TRUE, "STOP", Blank) }

NoModal ==
  /\ ~isClearConfirmVisible
  /\ ~isSaveDialogVisible
  /\ ~isLoadDialogVisible
  /\ ~isHistoryDialogVisible
  /\ ~isRestoreConfirmVisible
  /\ ~isCloneDialogVisible

Quiet == NoModal /\ ~fileReads

InitLedger == \E store \in LedgerStores : Mounted(LedgerProjects, store)

NextLedger ==
  \/ setPrompt(PromptP)
  \/ handleGenerate(MaxLedger)
  \/ \E reply \in LedgerReplies : apiSettles(reply)
  \/ generateResolved
  \/ generateRejected
  \/ setRefinementPrompt(RequestR)
  \/ handleRefine(MaxLedger)
  \/ refineResolved
  \/ refineRejected
  \/ Quiet /\ requestClear
  \/ confirmClear
  \/ Quiet /\ handleFileChange
  \/ handleFileUpload(CodeA, FileF, MaxLedger)
  \/ Quiet /\ requestLoad
  \/ \E name \in {NameN, NameM} : handleLoad(name, MaxLedger)
  \/ Quiet /\ handleHistoryRequest
  \/ \E i \in 2..MaxRow : handleRestoreRequest(i)
  \/ confirmRestore(MaxLedger)

SpecLedger == InitLedger /\ [][NextLedger]_vars

(* ---------------------------------------------------------------------- *)
(* Properties of the ledger                                               *)
(* ---------------------------------------------------------------------- *)
NoAdjacentDuplicate(h) ==
  \A i \in 1..(Len(h) - 1) : h[i].code # h[i + 1].code

\* C1: the persisted ledger and the in-memory versionHistory never hold more
\* than MAX_HISTORY_ITEMS (50) entries.
C1_LedgerWithinCapacity ==
  /\ Len(getHistory(lsHistory)) <= MAX_HISTORY_ITEMS
  /\ Len(versionHistory) <= MAX_HISTORY_ITEMS

\* A full ledger has taken one more entry: the almost full stored ledger starts
\* with CodeA, so a full ledger headed by CodeA has evicted its oldest entry.
C1_Witness ==
  /\ Len(getHistory(lsHistory)) = MAX_HISTORY_ITEMS
  /\ Len(versionHistory) = MAX_HISTORY_ITEMS
  /\ versionHistory[1].code = CodeA
  /\ versionHistory[MAX_HISTORY_ITEMS].code = NormA

\* C2: no two adjacent entries of the persisted ledger or of the in-memory
\* versionHistory have equal code.
C2_NoAdjacentDuplicates ==
  /\ NoAdjacentDuplicate(getHistory(lsHistory))
  /\ NoAdjacentDuplicate(versionHistory)

\* A ledger write was rejected (the in-memory ledger is ahead of the stored
\* one) and the code in the editor is the head, with an older code put aside.
C2_Witness ==
  /\ versionHistory # getHistory(lsHistory)
  /\ Len(versionHistory) >= 2
  /\ generatedCode = versionHistory[1].code
  /\ previousCode = versionHistory[2].code
  /\ ~isRestoreConfirmVisible

\* The steps in which a settled generate or refine call, or the load of a
\* saved project, hands code to addToHistory.
HandsToLedger(code) ==
  \/ /\ apiCall # NoCall
     /\ apiCall.settled
     /\ apiCall.result.ok
     /\ apiCall.result.text = code
     /\ apiCall' = NoCall
  \/ /\ isLoadDialogVisible
     /\ ~isLoadDialogVisible'
     /\ \E n \in DOMAIN savedProjects :
          /\ savedProjects[n].generatedCode = code
          /\ codeSourceInfo' = Source("saved", n)
          /\ generatedCode' = code
          /\ previousCode' = NULL

IsNoOpFor(code) ==
  \/ code = EmptyText
  \/ trim(code) = EmptyText
  \/ /\ getHistory(lsHistory) # <<>>
     /\ getHistory(lsHistory)[1].code = code

Fenced(text) == <<"F", "l", WS>> \o text \o <<WS, "F">>
FenceOnly == <<"F", WS, "F">>

CallPrompts == {Blank, PromptP}

CallReplies ==
  { Throws("fetch"),
    Responds(FALSE, "none", EmptyText),
    Responds(TRUE, "SAFETY", CodeB),
    Responds(TRUE, "STOP", EmptyText),
    Responds(TRUE, "STOP", Fenced(CodeB)),
    Responds(TRUE, "STOP", FenceOnly) }

CallStores == {Absent, Json(AlternatingLedger(1))}

InitCalls == \E store \in CallStores : Mounted(Absent, store)

NextCalls ==
  \/ \E text \in CallPrompts : setPrompt(text)
  \/ handleGenerate(MaxLedger)
  \/ \E reply \in CallReplies : apiSettles(reply)
  \/ generateResolved
  \/ generateRejected
  \/ setRefinementPrompt(RequestR)
  \/ handleRefine(MaxLedger)
  \/ refineResolved
  \/ refineRejected
  \/ onCodeChange(CodeE)
  \/ Quiet /\ handleFileChange
  \/ handleFileUpload(CodeA, FileF, MaxLedger)
  \/ Quiet /\ requestClear
  \/ cancelClear
  \/ confirmClear
  \/ handleErrorDismiss
  \/ Tick

SpecCalls == InitCalls /\ [][NextCalls]_vars

(* ---------------------------------------------------------------------- *)
(* Properties of generate and refine                                      *)
(* ---------------------------------------------------------------------- *)
\* The steps of a call: the handler starts it, and after the promise has
\* settled the handler resumes in its try or in its catch branch.
Triggered(op) == apiCall = NoCall /\ apiCall' # NoCall /\ apiCall'.op = op
Failed(op) == Settled(op) /\ ~apiCall.result.ok /\ apiCall' = NoCall
Succeeded(op) == Settled(op) /\ apiCall.result.ok /\ apiCall' = NoCall

HeadIs(h, code) == h # <<>> /\ h[1].code = code

\* C4 as worded: after a failed generate the code, the source and the ledger
\* are what they were immediately before the call was triggered, the loading
\* state is idle and the error is set.
C4_AsBeforeTrigger ==
  [][Failed("generate") =>
       /\ generatedCode' = apiCall.before.code
       /\ codeSourceInfo' = apiCall.before.source
       /\ versionHistory' = apiCall.before.ledger
       /\ lsHistory' = apiCall.before.stored
       /\ loadingState' = "idle"
       /\ error' # NoError]_vars

\* C4: a failing generate call changes neither the code, the source nor the
\* ledger (in memory and persisted), in the step that triggers it and in the
\* step that handles the failure; after the latter the loading state is idle
\* and the error is set.
C4_FailedGenerateChangesNothing ==
  [][/\ Triggered("generate") =>
          UNCHANGED <<generatedCode, codeSourceInfo, versionHistory, lsHistory>>
     /\ Failed("generate") =>
          /\ UNCHANGED <<generatedCode, codeSourceInfo, versionHistory, lsHistory>>
          /\ loadingState' = "idle"
          /\ error' # NoError
          /\ error'.op = "Generation failed"]_vars

\* A generate call has failed after a file read, started before the call,
\* completed while it was outstanding.
C4_Witness ==
  /\ error.op = "Generation failed"
  /\ loadingState = "idle"
  /\ apiCall = NoCall
  /\ codeSourceInfo = Source("file", FileF)
  /\ generatedCode = NormA

\* C5 as worded: after a failed refine the code and the ledger are what they
\* were before the call, previousCode is null, the error is set and the
\* loading state is idle.
C5_AsBeforeTrigger ==
  [][Failed("refine") =>
       /\ generatedCode' = apiCall.before.code
       /\ versionHistory' = apiCall.before.ledger
       /\ lsHistory' = apiCall.before.stored
       /\ previousCode' = NULL
       /\ loadingState' = "idle"
       /\ error' # NoError]_vars

\* C5: a failing refine call changes neither the code nor the ledger, in the
\* step that triggers it and in the step that handles the failure; after the
\* latter previousCode is null, the error is set and the loading state is idle.
C5_FailedRefineChangesNothing ==
  [][/\ Triggered("refine") =>
          UNCHANGED <<generatedCode, versionHistory, lsHistory>>
     /\ Failed("refine") =>
          /\ UNCHANGED <<generatedCode, versionHistory, lsHistory>>
          /\ previousCode' = NULL
          /\ loadingState' = "idle"
          /\ error' # NoError
          /\ error'.op = "Refinement failed"]_vars

\* A refine call on an imported file has failed; the code in the editor is a
\* hand edit and the ledger still has the import only.
C5_Witness ==
  /\ error.op = "Refinement failed"
  /\ loadingState = "idle"
  /\ apiCall = NoCall
  /\ previousCode = NULL
  /\ generatedCode = CodeE
  /\ HeadIs(versionHistory, NormA)

\* C6: when a generate call triggered with prompt p resolves with text c, the
\* code is c, the source is {prompt, p} and the head of the ledger has code c.
C6_GenerateSucceeds ==
  [][Succeeded("generate") =>
       /\ generatedCode' = apiCall.result.text
       /\ codeSourceInfo' = Source("prompt", apiCall.prompt)
       /\ HeadIs(versionHistory', apiCall.result.text)]_vars

\* C7: previousCode holds the code the refine call was triggered on for as
\* long as the call is outstanding; when the call resolves with text b, the
\* code is b, the head of the ledger has code b, previousCode still holds the
\* code the call was triggered on and the refinement input is empty.
C7_RefineSucceeds ==
  [][/\ (apiCall' # NoCall /\ apiCall'.op = "refine") =>
          previousCode' = apiCall'.before.code
     /\ Succeeded("refine") =>
          /\ generatedCode' = apiCall.result.text
          /\ HeadIs(versionHistory', apiCall.result.text)
          /\ previousCode' = apiCall.before.code
          /\ refinementPrompt' = EmptyText]_vars

(* ---------------------------------------------------------------------- *)
(* SpecProjects: saving, loading and deleting projects.  The code to save  *)
(* comes from a file import and hand edits; another tab of the application *)
(* shares the store.                                                      *)
(* ---------------------------------------------------------------------- *)
OtherProject ==
  [generatedCode |-> CodeB, initialPrompt |-> NULL, codeSourceInfo |-> NoSource]

ProjectStores == {Absent, Corrupt, Json([n \in {NameN} |-> OtherProject])}

\* Names typed into the save dialog: blank, plain, padded, and "__proto__".
SaveNames == {Blank, NameN, <<WS>> \o NameM, ProtoKey}

ProjectNames == {NameN, NameM}

InitProjects == \E store \in ProjectStores : Mounted(store, Absent)

NextProjects ==
  \/ Quiet /\ handleFileChange
  \/ handleFileUpload(CodeA, FileF, MaxLedger)
  \/ onCodeChange(CodeE)
  \/ Quiet /\ requestSave
  \/ closeSaveDialog
  \/ \E name \in SaveNames : handleSaveClick(name)
  \/ Quiet /\ requestLoad
  \/ closeLoadDialog
  \/ \E name \in ProjectNames : handleDelete(name)
  \/ \E name \in ProjectNames : otherTabDeletes(name)

SpecProjects == InitProjects /\ [][NextProjects]_vars

(* ---------------------------------------------------------------------- *)
(* Properties of the project repository                                   *)
(* ---------------------------------------------------------------------- *)
\* The steps in which the page calls saveProject or deleteProject.
Calls(fn) == lastCall'.flip # lastCall.flip /\ lastCall'.fn = fn

OthersUnchanged(before, after, name) ==
  /\ DOMAIN after \ {name} = DOMAIN before \ {name}
  /\ \A n \in DOMAIN before \ {name} : after[n] = before[n]

\* C8: after a saveProject(name, P) whose write the store accepted,
\* getProjects() maps name to P and every other name to what it mapped to
\* before, also when name was in the mapping already.
C8_SaveThenList ==
  [][(Calls("saveProject") /\ lastCall'.accepted) =>
       LET after == getProjects(lsProjects')
       IN /\ ~lastCall'.threw
          /\ lastCall'.name \in DOMAIN after
          /\ after[lastCall'.name] = lastCall'.project
          /\ OthersUnchanged(getProjects(lsProjects), after, lastCall'.name)]_vars

\* C9: a deleteProject(name) whose write the store accepted does not throw,
\* and afterwards getProjects() has no entry for name and every other entry is
\* unchanged; when name was not in the mapping, the mapping is unchanged.
C9_DeleteThenList ==
  [][(Calls("deleteProject") /\ lastCall'.accepted) =>
       LET before == getProjects(lsProjects)
           after == getProjects(lsProjects')
       IN /\ ~lastCall'.threw
          /\ lastCall'.name \notin DOMAIN after
          /\ OthersUnchanged(before, after, lastCall'.name)
          /\ ~lastCall'.present => after = before]_vars

\* A project that another tab had already removed was deleted from the load
\* dialog, and another project is still in the mapping.
C9_Witness ==
  /\ lastCall.fn = "deleteProject"
  /\ ~lastCall.present
  /\ lastCall.accepted
  /\ ~lastCall.threw
  /\ getProjects(lsProjects) # EmptyMapping
  /\ savedProjects = getProjects(lsProjects)

\* C10: when the store rejects the write of Save project, the failure reaches
\* the save dialog, which stays open and shows the error, and neither the
\* persisted mapping nor the in-memory project list changes.
C10_RejectedSave ==
  [][(Calls("saveProject") /\ ~lastCall'.accepted) =>
       /\ lastCall'.threw
       /\ isSaveDialogVisible'
       /\ saveDialogError' = "Could not save the project."
       /\ error' # NoError
       /\ lsProjects' = lsProjects
       /\ savedProjects' = savedProjects]_vars

\* The save of an edited import under a new name was rejected: the dialog is
\* open with the error and the name is not in the list.
C10_Witness ==
  /\ lastCall.fn = "saveProject"
  /\ ~lastCall.accepted
  /\ lastCall.threw
  /\ lastCall.name = NameM
  /\ lastCall.project.generatedCode = CodeE
  /\ isSaveDialogVisible
  /\ saveDialogError = "Could not save the project."
  /\ NameM \notin DOMAIN savedProjects
  /\ NameM \notin DOMAIN getProjects(lsProjects)

(* ---------------------------------------------------------------------- *)
(* SpecRestore: the version history dialog (restore and compare) over a    *)
(* stored ledger of two, of three or of MAX_HISTORY_ITEMS entries, with    *)
(* file imports and hand edits (to other text, or deleting all of it)      *)
(* providing the code in the editor.                                      *)
(* ---------------------------------------------------------------------- *)
RestoreStores ==
  { Json(AlternatingLedger(2)), Json(AlternatingLedger(3)),
    Json(AlternatingLedger(MAX_HISTORY_ITEMS)) }

InitRestore == \E store \in RestoreStores : Mounted(Absent, store)

NextRestore ==
  \/ Quiet /\ handleFileChange
  \/ handleFileUpload(CodeA, FileF, MaxLedger)
  \/ \E text \in {CodeE, EmptyText} : onCodeChange(text)
  \/ Quiet /\ handleHistoryRequest
  \/ closeHistoryDialog
  \/ \E i \in 2..MaxRow : handleRestoreRequest(i)
  \/ confirmRestore(MaxLedger)
  \/ cancelRestore
  \/ \E i \in 2..MaxRow : handleCompareWithHistory(i)
  \/ \E tab \in {"preview", "code"} : setActiveTab(tab)
  \/ handleCompareWithPrevious
  \/ onCloseDiff

SpecRestore == InitRestore /\ [][NextRestore]_vars

(* ---------------------------------------------------------------------- *)
(* Properties of restore                                                  *)
(* ---------------------------------------------------------------------- *)
\* The step in which the restore of versionToRestore is confirmed.
Restored ==
  /\ isRestoreConfirmVisible
  /\ isHistoryDialogVisible
  /\ versionToRestore # NoVersion
  /\ ~isRestoreConfirmVisible'
  /\ ~isHistoryDialogVisible'

Min(a, b) == IF a <= b THEN a ELSE b

\* after is before with one new entry in front, the oldest entry evicted when
\* before was full.
PrependedTo(before, after) ==
  /\ Len(after) = Min(Len(before) + 1, MAX_HISTORY_ITEMS)
  /\ \A i \in 2..Len(after) : after[i] = before[i - 1]

\* C11 as worded: the restore of V puts the overwritten code in previousCode,
\* sets the code to V.code and puts V.code in front of the ledger shown in the
\* dialog as a new entry, keeping every entry of it (other than by eviction).
C11_AsWorded ==
  [][Restored =>
       /\ previousCode' = generatedCode
       /\ generatedCode' = versionToRestore.code
       /\ HeadIs(versionHistory', versionToRestore.code)
       /\ PrependedTo(versionHistory, versionHistory')]_vars

\* C11: the restore of V puts the overwritten code in previousCode, sets the
\* code to V.code and makes V.code the head of the ledger: the ledger is the
\* persisted one, unchanged when its head has V.code already, else with a new
\* entry in front (the oldest evicted at capacity); a restore of the code that
\* is the head of the ledger already does not make the ledger longer.
C11_RestoreMakesHead ==
  [][Restored =>
       LET stored == getHistory(lsHistory)
           code == versionToRestore.code
       IN /\ previousCode' = generatedCode
          /\ generatedCode' = code
          /\ HeadIs(versionHistory', code)
          /\ IF HeadIs(stored, code)
               THEN versionHistory' = stored
               ELSE PrependedTo(stored, versionHistory')
          /\ HeadIs(versionHistory, code) =>
               Len(versionHistory') = Len(versionHistory)
          /\ NoAdjacentDuplicate(versionHistory')]_vars

\* A hand edit was overwritten by the restore of an older version, which is
\* now the head of a ledger of at least three entries.
C11_Witness ==
  /\ previousCode = CodeE
  /\ generatedCode = NormA
  /\ HeadIs(versionHistory, NormA)
  /\ Len(versionHistory) >= 3
  /\ versionToRestore = NoVersion
  /\ ~isHistoryDialogVisible

\* C12: after a confirmed restore the code that was in the editor just before
\* it is the code of an entry of the version history.
C12_OverwrittenCodeInHistory ==
  [][(Restored /\ Truthy(generatedCode)) =>
       \E i \in 1..Len(versionHistory') :
          versionHistory'[i].code = generatedCode]_vars

(* ---------------------------------------------------------------------- *)
(* Properties of the source descriptor                                    *)
(* ---------------------------------------------------------------------- *)
\* A call is outstanding that was triggered while a source was loaded.
InFlightFromLoadedSource ==
  apiCall # NoCall /\ apiCall.before.source # NoSource

\* C13: in every reachable state codeSourceInfo is null if and only if the
\* code is empty and no call triggered from a loaded source is outstanding.
C13_FreshStart ==
  codeSourceInfo = NoSource <=>
    (generatedCode = EmptyText /\ ~InFlightFromLoadedSource)

(* ---------------------------------------------------------------------- *)
(* Properties of the loading state                                        *)
(* ---------------------------------------------------------------------- *)
\* A request is handed to the client in this step.
RequestStarts == apiCall' # apiCall /\ apiCall' # NoCall /\ ~apiCall'.settled

\* C14: while a generate or refine request is outstanding the loading state
\* names it (so it is not idle), and a request starts only when none is
\* outstanding and the loading state is idle.
C14_OneRequestAtATime ==
  /\ [](apiCall # NoCall => loadingState = apiCall.op)
  /\ [][RequestStarts => (apiCall = NoCall /\ loadingState = "idle")]_vars

\* A refine request is outstanding over an imported file.
C14_Witness ==
  /\ apiCall # NoCall
  /\ apiCall.op = "refine"
  /\ ~apiCall.settled
  /\ loadingState = "refine"
  /\ codeSourceInfo = Source("file", FileF)

(* ---------------------------------------------------------------------- *)
(* Properties of compare                                                  *)
(* ---------------------------------------------------------------------- *)
\* The steps that open a comparison and that close it.
CompareOpens == diffTarget' # diffTarget /\ diffTarget' # NoDiff
CompareCloses == diffTarget # NoDiff /\ diffTarget' = NoDiff

\* C15 as worded: a compare request changes the {original, modified} pair
\* only, and closing the comparison sets the pair to none and changes nothing
\* else.
C15_AsWorded ==
  [][(CompareOpens \/ CompareCloses) =>
       UNCHANGED <<controllerVars, ledgerVars, projectVars, restoreVars,
                   dialogVars, lsInitialPrompt, apiCall, fileReads, now>>]_vars

\* C15: a compare request leaves the code, the ledger, previousCode and the
\* source unchanged and sets the {original, modified} pair, whose modified
\* side is the code; besides the pair it changes at most the active view and
\* the visibility of the history dialog.  Closing the comparison sets the pair
\* to none and changes nothing else.
C15_CompareFrame ==
  [][/\ CompareOpens =>
          /\ UNCHANGED <<generatedCode, previousCode, codeSourceInfo, ledgerVars>>
          /\ diffTarget'.modified = generatedCode
          /\ UNCHANGED <<prompt, refinementPrompt, initialPrompt, loadingState,
                         error, projectVars, versionToRestore,
                         isRestoreConfirmVisible, dialogVars, lsInitialPrompt,
                         apiCall, fileReads, now>>
     /\ CompareCloses =>
          UNCHANGED <<controllerVars, ledgerVars, projectVars, restoreVars,
                      dialogVars, lsInitialPrompt, apiCall, fileReads, now>>]_vars

\* A hand edit is compared with an entry of the ledger: the code view is
\* active and the history dialog is closed.
C15_Witness ==
  /\ diffTarget = [original |-> CodeA, modified |-> CodeE]
  /\ generatedCode = CodeE
  /\ activeTab = "code"
  /\ ~isHistoryDialogVisible

(* ---------------------------------------------------------------------- *)
(* Properties of clear all                                                *)
(* ---------------------------------------------------------------------- *)
\* C16: after a confirmed clear the code is empty, the source, previousCode
\* and the initial prompt are null, the prompt and the refinement text are
\* empty, the error is null, the active view is preview and the ledger is
\* empty in the store and in memory; no other step removes the persisted
\* ledger or makes it shorter.
C16_ClearAll ==
  [][/\ confirmClear =>
          /\ generatedCode' = EmptyText
          /\ codeSourceInfo' = NoSource
          /\ previousCode' = NULL
          /\ prompt' = EmptyText
          /\ refinementPrompt' = EmptyText
          /\ initialPrompt' = NULL
          /\ error' = NoError
          /\ activeTab' = "preview"
          /\ lsHistory' = Absent
          /\ getHistory(lsHistory') = <<>>
          /\ versionHistory' = <<>>
     /\ ( \/ (lsHistory # Absent /\ lsHistory' = Absent)
          \/ Len(getHistory(lsHistory')) < Len(getHistory(lsHistory)) ) =>
          confirmClear]_vars

\* Clear all was confirmed while a call was outstanding that had been
\* triggered over a stored ledger.
C16_Witness ==
  /\ apiCall # NoCall
  /\ getHistory(apiCall.before.stored) # <<>>
  /\ lsHistory = Absent
  /\ versionHistory = <<>>
  /\ generatedCode = EmptyText
  /\ codeSourceInfo = NoSource
  /\ ~isClearConfirmVisible

(* ---------------------------------------------------------------------- *)
(* SpecLoad: a project is saved from imported and hand-edited code and     *)
(* loaded again, starting from an empty store.                            *)
(* ---------------------------------------------------------------------- *)
InitLoad == Mounted(Absent, Absent)

NextLoad ==
  \/ Quiet /\ handleFileChange
  \/ handleFileUpload(CodeA, FileF, MaxLedger)
  \/ \E text \in {CodeE, Blank} : onCodeChange(text)
  \/ setRefinementPrompt(RequestR)
  \/ Quiet /\ requestSave
  \/ closeSaveDialog
  \/ handleSaveClick(NameN)
  \/ Quiet /\ requestLoad
  \/ closeLoadDialog
  \/ handleLoad(NameN, MaxLedger)

SpecLoad == InitLoad /\ [][NextLoad]_vars

(* ---------------------------------------------------------------------- *)
(* Properties of load                                                     *)
(* ---------------------------------------------------------------------- *)
\* What the store holds for a project name
Stored(name) == getProjects(lsProjects)[name]

\* C17 as worded: loading the project n sets the code and the initial prompt
\* to the stored values, the source to {saved, n}, clears previousCode, the
\* refinement text and the error, and makes the loaded code the ledger head.
C17_AsWorded ==
  [][\A n \in ProjectNames : handleLoad(n, MaxLedger) =>
       /\ generatedCode' = Stored(n).generatedCode
       /\ initialPrompt' = Stored(n).initialPrompt
       /\ codeSourceInfo' = Source("saved", n)
       /\ previousCode' = NULL
       /\ refinementPrompt' = EmptyText
       /\ error' = NoError
       /\ HeadIs(versionHistory', Stored(n).generatedCode)]_vars

\* C17: loading the project n sets the code and the initial prompt to the
\* stored values, the source to {saved, n}, clears previousCode, the
\* refinement text and the error; the loaded code is the ledger head unless it
\* is blank, in which case the ledger is the persisted one, unchanged.
C17_LoadProject ==
  [][\A n \in ProjectNames : handleLoad(n, MaxLedger) =>
       /\ generatedCode' = Stored(n).generatedCode
       /\ initialPrompt' = Stored(n).initialPrompt
       /\ codeSourceInfo' = Source("saved", n)
       /\ previousCode' = NULL
       /\ refinementPrompt' = EmptyText
       /\ error' = NoError
       /\ IF trim(Stored(n).generatedCode) = EmptyText
            THEN lsHistory' = lsHistory /\ versionHistory' = getHistory(lsHistory)
            ELSE HeadIs(versionHistory', Stored(n).generatedCode)]_vars

\* A project saved from a hand edit of an imported file is loaded: the source
\* is {saved, n}, not the {file, f} stored in the project.
C17_Witness ==
  /\ codeSourceInfo = Source("saved", NameN)
  /\ NameN \in DOMAIN getProjects(lsProjects)
  /\ Stored(NameN).codeSourceInfo = Source("file", FileF)
  /\ Stored(NameN).generatedCode = CodeE
  /\ generatedCode = CodeE
  /\ initialPrompt = ImportedPrompt
  /\ HeadIs(versionHistory, CodeE)
  /\ previousCode = NULL
  /\ ~isLoadDialogVisible

(* ---------------------------------------------------------------------- *)
(* Properties of file import                                              *)
(* ---------------------------------------------------------------------- *)
\* C18: importing the file f with content h sets the code to normalize(h),
\* the source to {file, f}, clears previousCode, the prompt and the
\* refinement text, and makes normalize(h) the ledger head.
C18_ImportFile ==
  [][handleFileUpload(CodeA, FileF, MaxLedger) =>
       /\ generatedCode' = processUploadedHtml(CodeA)
       /\ codeSourceInfo' = Source("file", FileF)
       /\ previousCode' = NULL
       /\ prompt' = EmptyText
       /\ refinementPrompt' = EmptyText
       /\ HeadIs(versionHistory', processUploadedHtml(CodeA))]_vars

(* ---------------------------------------------------------------------- *)
(* SpecClone: the clone dialog and the fetches it starts.                  *)
(* ---------------------------------------------------------------------- *)
NotAUrl == <<"l">>
RepoUrl == <<"H", "G", "o", "/", "r">>
OwnerRepo == <<"o", "/", "r">>

\* What the listing request and the download request can get
Listings ==
  { Rejects, Response(404, NoBody), Response(403, NoBody), Response(500, NoBody),
    Response(200, Unreadable), Response(200, Json(<<>>)),
    Response(200, Json(<<Entry("index.html", "dir", NULL)>>)),
    Response(200, Json(<<Entry("index.html", "file", NULL)>>)),
    Response(200, Json(<<Entry("README.md", "file", <<"u">>),
                         Entry("index.html", "file", <<"u">>)>>)) }

Downloads ==
  { Rejects, Response(404, NoBody), Response(200, Unreadable),
    Response(200, Body(CodeA)) }

InitClone ==
  \E store \in {Absent, Json(AlternatingLedger(2))} : Mounted(Absent, store)

NextClone ==
  \/ Quiet /\ onCloneRequest
  \/ closeCloneDialog
  \/ \E url \in {Blank, NotAUrl, RepoUrl} : setRepoUrl(url)
  \/ handleCloneClick
  \/ \E k \in 1..MaxFetches, listing \in Listings, download \in Downloads :
       cloneSettles(k, listing, download, MaxLedger)

SpecClone == InitClone /\ [][NextClone]_vars

(* ---------------------------------------------------------------------- *)
(* Properties of clone                                                    *)
(* ---------------------------------------------------------------------- *)
\* A fetch for a repository URL settles with the text of index.html
FetchSucceeds(k, html) ==
  /\ \E listing \in Listings, download \in Downloads :
       cloneSettles(k, listing, download, MaxLedger)
  /\ fetched'.result = Returns(html)

\* C19: when the fetch of index.html succeeds for owner/repo, the code is the
\* normalized file, the source is {github, owner/repo}, the code is the ledger
\* head, and the clone dialog is closed without an error.
C19_CloneCompletes ==
  [][\A k \in 1..MaxFetches : FetchSucceeds(k, CodeA) =>
       /\ generatedCode' = processUploadedHtml(CodeA)
       /\ codeSourceInfo' = Source("github", OwnerRepo)
       /\ HeadIs(versionHistory', processUploadedHtml(CodeA))
       /\ ~isCloneDialogVisible'
       /\ cloneError' = NULL]_vars

(* ---------------------------------------------------------------------- *)
(* Properties of refine validation                                        *)
(* ---------------------------------------------------------------------- *)
\* C20: a refine with a blank refinement text or with empty code sets a
\* validation error, starts no request, and leaves the loading state,
\* previousCode, the code and the ledger unchanged.
C20_RefineValidates ==
  [][(/\ handleRefine(MaxLedger)
      /\ (trim(refinementPrompt) = EmptyText \/ generatedCode = EmptyText)) =>
       /\ error' = Error("refine", "validation")
       /\ apiCall' = apiCall
       /\ UNCHANGED <<loadingState, previousCode, generatedCode, ledgerVars>>]_vars

(* ---------------------------------------------------------------------- *)
(* SpecNormalize: a document of up to MaxLen tokens is imported into an    *)
(* empty editor, and the normalized document is imported again.           *)
(* ---------------------------------------------------------------------- *)
DocTokens == {"D", "T", "K", "S", "|", "A"}

Documents == UNION { [1..n -> DocTokens] : n \in 0..MaxLen }

\* The documents an import of one of Documents leaves in the editor
Normalized == { processUploadedHtml(html) : html \in Documents }

InitNormalize == Mounted(Absent, Absent)

NextNormalize ==
  \/ Quiet /\ handleFileChange
  \/ /\ generatedCode = EmptyText
     /\ \E html \in Documents : handleFileUpload(html, FileF, 1)
  \/ /\ generatedCode \in Normalized
     /\ handleFileUpload(generatedCode, FileF, 1)

SpecNormalize == InitNormalize /\ [][NextNormalize]_vars

(* ---------------------------------------------------------------------- *)
(* Properties of the import normalisation                                 *)
(* ---------------------------------------------------------------------- *)
\* C21: importing a document that is already normalized adds no further
\* script tag, font link tag or style block: the head of
\* normalize(normalize(h)) is the head of normalize(h).
C21_NormalizeIdempotent ==
  [][\A html \in Documents :
       handleFileUpload(processUploadedHtml(html), FileF, 1) =>
         parseHead(generatedCode') = parseHead(processUploadedHtml(html))]_vars

(* ---------------------------------------------------------------------- *)
(* Properties of fetchRepoIndexHtml                                       *)
(* ---------------------------------------------------------------------- *)
\* The kind of failure a message stands for
Kind(result) ==
  IF result.ok THEN "Text"
  ELSE LET msg == Head(result.text) IN
    IF msg = "Invalid GitHub repository URL" THEN "InvalidUrl"
    ELSE IF msg \in {"Network error. Could not connect to GitHub API.",
                     "Network error. Could not download index.html."}
      THEN "NetworkError"
    ELSE IF msg = "Repository not found at" THEN "NotFound"
    ELSE IF msg = "GitHub API rate limit exceeded" THEN "RateLimited"
    ELSE IF msg \in {"Could not fetch repository contents. Status:",
                     "Could not download index.html. Status:"}
      THEN "RequestFailed"
    ELSE IF msg = "'index.html' not found in the root of the repository."
      THEN "FileNotFound"
    ELSE "Other"

\* The listing has an entry named index.html that is a file
HasIndexFile(listing) ==
  /\ listing.body.kind = "json"
  /\ \E i \in 1..Len(listing.body.value) :
       /\ listing.body.value[i].name = "index.html"
       /\ listing.body.value[i].type = "file"

\* ... and that entry has a download URL
HasIndexUrl(listing) ==
  /\ listing.body.kind = "json"
  /\ \E i \in 1..Len(listing.body.value) :
       /\ listing.body.value[i].name = "index.html"
       /\ listing.body.value[i].type = "file"
       /\ listing.body.value[i].download_url # NULL

\* The steps in the order of the claim: whether each fails, and how
StepsAsWorded(url, listing, download) ==
  << [fails |-> ~MatchesRepoUrl(trim(url)), kind |-> "InvalidUrl"],
     [fails |-> listing = Rejects, kind |-> "NetworkError"],
     [fails |-> listing.status = 404, kind |-> "NotFound"],
     [fails |-> listing.status = 403, kind |-> "RateLimited"],
     [fails |-> ~ResponseOk(listing), kind |-> "RequestFailed"],
     [fails |-> ~HasIndexFile(listing), kind |-> "FileNotFound"],
     [fails |-> download = Rejects, kind |-> "NetworkError"],
     [fails |-> ~ResponseOk(download), kind |-> "RequestFailed"] >>

\* The same with the steps that read a body
Steps(url, listing, download) ==
  << [fails |-> ~MatchesRepoUrl(trim(url)), kind |-> "InvalidUrl"],
     [fails |-> listing = Rejects, kind |-> "NetworkError"],
     [fails |-> listing.status = 404, kind |-> "NotFound"],
     [fails |-> listing.status = 403, kind |-> "RateLimited"],
     [fails |-> ~ResponseOk(listing), kind |-> "RequestFailed"],
     [fails |-> listing.body = Unreadable, kind |-> "Other"],
     [fails |-> ~HasIndexUrl(listing), kind |-> "FileNotFound"],
     [fails |-> download = Rejects, kind |-> "NetworkError"],
     [fails |-> ~ResponseOk(download), kind |-> "RequestFailed"],
     [fails |-> download.body = Unreadable, kind |-> "Other"] >>

\* The kind of the first step that fails, "Text" when none does
FirstFailure(steps) ==
  IF \E i \in 1..Len(steps) : steps[i].fails
    THEN steps[CHOOSE i \in 1..Len(steps) :
                 steps[i].fails /\ \A j \in 1..(i - 1) : ~steps[j].fails].kind
    ELSE "Text"

\* C22 as worded: the fetch fails with the failure of the first step that
\* fails, in the order invalid URL, listing transport, 404, 403, other
\* non-success, no index.html file entry, download transport, download
\* non-success; it returns the file text only when none fails.
C22_AsWorded ==
  fetched # NoFetch =>
    LET expected == FirstFailure(StepsAsWorded(fetched.url, fetched.listing,
                                               fetched.download))
    IN /\ Kind(fetched.result) = expected
       /\ expected = "Text" => fetched.result.text = fetched.download.body.value

\* C22: the fetch fails with the failure of the first step that fails, in the
\* order invalid URL, listing transport, 404 (naming owner/repo), 403, other
\* non-success, listing body unreadable (the reader's own error), no
\* index.html file entry with a download URL, download transport, download
\* non-success, download body unreadable (the reader's own error); it returns
\* the file text only when none fails.
C22_FirstFailureWins ==
  fetched # NoFetch =>
    LET expected == FirstFailure(Steps(fetched.url, fetched.listing,
                                       fetched.download))
    IN /\ Kind(fetched.result) = expected
       /\ expected = "Text" => fetched.result.text = fetched.download.body.value
       /\ expected = "NotFound" =>
            fetched.result.text = <<"Repository not found at">> \o OwnerRepo

\* A fetch whose listing got a 404 and whose download would have been
\* rejected has settled with NotFound.
C22_Witness ==
  /\ fetched # NoFetch
  /\ fetched.url = RepoUrl
  /\ fetched.listing.status = 404
  /\ fetched.download = Rejects
  /\ Kind(fetched.result) = "NotFound"

(* ---------------------------------------------------------------------- *)
(* Properties of replacing the code                                       *)
(* ---------------------------------------------------------------------- *)
\* The text is in previousCode or in an entry of the ledger, in memory or stored
Recoverable(text) ==
  \/ previousCode = text
  \/ \E i \in 1..Len(versionHistory) : versionHistory[i].code = text
  \/ \E i \in 1..Len(getHistory(lsHistory)) : getHistory(lsHistory)[i].code = text

\* C23: when an import or a load replaces code that is not blank, including
\* code produced by hand edits, the replaced text is afterwards in
\* previousCode or in an entry of the ledger.
C23_NoDataLost ==
  [][(/\ handleFileUpload(CodeA, FileF, MaxLedger) \/ handleLoad(NameN, MaxLedger)
      /\ trim(generatedCode) # EmptyText
      /\ generatedCode' # generatedCode) =>
       Recoverable(generatedCode)']_vars

(* ---------------------------------------------------------------------- *)
(* Properties of the persisted controller state                           *)
(* ---------------------------------------------------------------------- *)
\* The key holds the value; an absent key stands for null
PersistedAs(value, store) ==
  IF value = NULL THEN store = Absent ELSE store = Json(value)

\* C24, for load and the initial prompt: when the persisted initial prompt
\* equals the one in memory before a project is loaded, it equals the one in
\* memory after the load.
C24_PersistedInitialPrompt ==
  [][\A n \in ProjectNames :
       (/\ handleLoad(n, MaxLedger)
        /\ PersistedAs(initialPrompt, lsInitialPrompt)) =>
         PersistedAs(initialPrompt', lsInitialPrompt')]_vars

(* ---------------------------------------------------------------------- *)
(* Properties of calls that outlive a clear                               *)
(* ---------------------------------------------------------------------- *)
\* Clear all was confirmed while the call was outstanding: the ledger the
\* call started with is gone
ClearedMeanwhile ==
  /\ apiCall # NoCall
  /\ getHistory(apiCall.before.stored) # <<>>
  /\ lsHistory = Absent

InitAutosave == Mounted(Absent, Absent)

\* Some pending timer fires
timeout == \E k \in 1..Len(timers) : timerFires(k)

NextAutosave ==
  \/ Quiet /\ handleFileChange
  \/ handleFileUpload(CodeA, FileF, MaxLedger)
  \/ \E text \in {CodeB, CodeE, EmptyText} : onCodeChange(text)
  \/ Quiet /\ requestClear
  \/ cancelClear
  \/ confirmClear
  \/ timeout

SpecAutosave == InitAutosave /\ [][NextAutosave]_vars /\ WF_vars(timeout)

(* ---------------------------------------------------------------------- *)
(* Properties of the autosave                                             *)
(* ---------------------------------------------------------------------- *)
\* C26: at most one timer is pending and it holds the latest code; a write or
\* a removal of the code key by a timer is of the latest code; and a pending
\* timer fires unless the code changes first.
C26_DebouncedAutosave ==
  /\ [](timers = <<>> \/ timers = <<generatedCode>>)
  /\ [][timeout =>
          /\ written'.code = generatedCode
          /\ IF generatedCode = EmptyText THEN lsCode' = Absent
             ELSE IF written'.accepted THEN lsCode' = Json(generatedCode)
             ELSE lsCode' = lsCode]_vars
  /\ \A text \in {processUploadedHtml(CodeA), CodeB, CodeE, EmptyText} :
       (timers = <<text>>) ~> (timers = <<>> \/ generatedCode # text)

\* After an import and a hand edit, which cleared the timer of the import,
\* the timer has fired and the code key holds the edit.
C26_Witness ==
  /\ timers = <<>>
  /\ generatedCode = CodeB
  /\ written = [code |-> CodeB, accepted |-> TRUE]
  /\ lsCode = Json(CodeB)
  /\ codeSourceInfo = Source("file", FileF)

(* ---------------------------------------------------------------------- *)
(* SpecOrder: imports of two files in turn and Clear all, on an empty      *)
(* ledger and on an almost full one whose entries have distinct times.    *)
(* ---------------------------------------------------------------------- *)
\* n entries of earlier sessions, the most recent first
AgedLedger(n) ==
  [i \in 1..n |-> [code |-> IF i % 2 = 1 THEN CodeA ELSE CodeB,
                   timestamp |-> 0 - i]]

InitOrder ==
  \E store \in {Absent, Json(AgedLedger(MAX_HISTORY_ITEMS - 1))} :
    Mounted(Absent, store)

NextOrder ==
  \/ Quiet /\ handleFileChange
  \/ \E html \in {CodeA, CodeB} : handleFileUpload(html, FileF, MaxLedger)
  \/ Quiet /\ requestClear
  \/ cancelClear
  \/ confirmClear

SpecOrder == InitOrder /\ [][NextOrder]_vars

(* ---------------------------------------------------------------------- *)
(* Properties of the order of the ledger                                  *)
(* ---------------------------------------------------------------------- *)
\* C27: a change of the persisted ledger is either Clear all or puts one new
\* entry at index 0 in front of the earlier entries, which keep their code,
\* timestamp and order, the last one being dropped when there were 50; the
\* ledger returned to the controller is the persisted one, or that new ledger.
C27_LedgerOrder ==
  [][LET old == getHistory(lsHistory)
         new == getHistory(lsHistory')
     IN /\ new # old =>
             \/ confirmClear /\ new = <<>>
             \/ /\ PrependedTo(old, new)
                /\ new[1].timestamp = now
                /\ Len(old) = MAX_HISTORY_ITEMS =>
                     \A i \in 1..(MAX_HISTORY_ITEMS - 1) : new[i + 1] = old[i]
        /\ versionHistory' # versionHistory =>
             \/ versionHistory' = new
             \/ PrependedTo(old, versionHistory')]_vars

\* A full ledger has taken one more entry: the two newest entries are of this
\* session, the oldest entry of the stored ledger is gone and the one before
\* it is now the last.
C27_Witness ==
  LET h == getHistory(lsHistory) IN
    /\ Len(h) = MAX_HISTORY_ITEMS
    /\ h[1].timestamp = 0 /\ h[2].timestamp = 0
    /\ h[3] = AgedLedger(3)[1]
    /\ h[MAX_HISTORY_ITEMS] = AgedLedger(MAX_HISTORY_ITEMS)[MAX_HISTORY_ITEMS - 2]

(* ---------------------------------------------------------------------- *)
(* SpecAwait: the calls of SpecCalls, where a handler suspended at its     *)
(* await resumes once the promise has settled (the continuation is a      *)
(* microtask of the event loop, which runs before any other task).        *)
(* ---------------------------------------------------------------------- *)
resumes ==
  \/ generateResolved
  \/ generateRejected
  \/ refineResolved
  \/ refineRejected

SpecAwait == InitCalls /\ [][NextCalls]_vars /\ WF_vars(resumes)

(* ---------------------------------------------------------------------- *)
(* Properties of the loading state                                        *)
(* ---------------------------------------------------------------------- *)
\* The handler snapshots the code and raises the loading state before the
\* request leaves, and lowers it in the step that applies the outcome.
StepsInOrder ==
  [][\A op \in {"generate", "refine"} :
       /\ Triggered(op) => (previousCode' = generatedCode /\ loadingState' = op)
       /\ (apiCall # NoCall /\ apiCall' # NoCall) => loadingState' = loadingState
       /\ (Succeeded(op) \/ Failed(op)) => loadingState' = "idle"]_vars

\* A settled call is followed by an idle loading state.
SettledLeadsToIdle ==
  \A op \in {"generate", "refine"} : Settled(op) ~> (loadingState = "idle")

\* C28: a generate or refine that passes validation snapshots the code and
\* sets the loading state, awaits the backend, applies the outcome and sets
\* the loading state to idle; a settled call is followed by an idle loading
\* state, and the loading state is non-idle only while a request is
\* outstanding.
C28_LoadingReturnsToIdle ==
  /\ StepsInOrder
  /\ SettledLeadsToIdle
  /\ [](loadingState # "idle" => apiCall # NoCall)

(* ---------------------------------------------------------------------- *)
(* SpecFrame: generate, refine, file import, hand edits and restore in one *)
(* session that starts with an empty ledger; a generate answers CodeB and a *)
(* refine answers CodeC, so the code of a ledger entry tells which          *)
(* operation produced it.                                                 *)
(* ---------------------------------------------------------------------- *)
CodeC == <<"C">>

FrameReplies(op) ==
  { Throws("fetch"),
    Responds(TRUE, "STOP", IF op = "refine" THEN CodeC ELSE CodeB) }

InitFrame == Mounted(Absent, Absent)

NextFrame ==
  \/ setPrompt(PromptP)
  \/ handleGenerate(MaxLedger)
  \/ \E reply \in FrameReplies(apiCall.op) : apiSettles(reply)
  \/ generateResolved
  \/ generateRejected
  \/ setRefinementPrompt(RequestR)
  \/ handleRefine(MaxLedger)
  \/ refineResolved
  \/ refineRejected
  \/ onCodeChange(CodeE)
  \/ Quiet /\ handleFileChange
  \/ handleFileUpload(CodeA, FileF, MaxLedger)
  \/ Quiet /\ handleHistoryRequest
  \/ closeHistoryDialog
  \/ \E i \in 2..MaxRow : handleRestoreRequest(i)
  \/ confirmRestore(MaxLedger)
  \/ cancelRestore

SpecFrame == InitFrame /\ [][NextFrame]_vars

(* ---------------------------------------------------------------------- *)
(* Properties of the source descriptor                                    *)
(* ---------------------------------------------------------------------- *)
\* C29: the confirmation of a restore, the start, the success and the
\* failure of a refine, and a hand edit leave codeSourceInfo and
\* initialPrompt as they were; in particular a restore of an entry that was
\* produced under another source keeps the source that was active.
C29_SourceFrame ==
  [][(\/ Restored
      \/ Triggered("refine")
      \/ Succeeded("refine")
      \/ Failed("refine")
      \/ onCodeChange(CodeE))
       => /\ codeSourceInfo' = codeSourceInfo
          /\ initialPrompt' = initialPrompt]_vars

\* The oldest entry was generated from the prompt, a file was imported after
\* it, and the generated entry has been restored over the imported code: the
\* source is still the file.
C29_Witness ==
  /\ Len(versionHistory) = 3
  /\ versionHistory[3].code = CodeB
  /\ versionHistory[2].code = NormA
  /\ versionHistory[1].code = CodeB
  /\ generatedCode = CodeB
  /\ previousCode = NormA
  /\ codeSourceInfo = Source("file", FileF)
  /\ ~isHistoryDialogVisible

(* ---------------------------------------------------------------------- *)
(* SpecEdit: one file is imported into the empty editor and then refined,  *)
(* with hand edits before, during and after the calls and the autosave     *)
(* timer; the file has been read before Refine is pressed, so hand edits   *)
(* and the timer are all that happens while a call is outstanding.         *)
(* ---------------------------------------------------------------------- *)
InitEdit == Mounted(Absent, Absent)

NextEdit ==
  \/ Quiet /\ generatedCode = EmptyText /\ handleFileChange
  \/ handleFileUpload(CodeA, FileF, MaxLedger)
  \/ setRefinementPrompt(RequestR)
  \/ ~fileReads /\ handleRefine(MaxLedger)
  \/ \E reply \in FrameReplies("refine") : apiSettles(reply)
  \/ refineResolved
  \/ refineRejected
  \/ \E text \in {CodeB, CodeE} : onCodeChange(text)
  \/ handleErrorDismiss
  \/ timeout

SpecEdit == InitEdit /\ [][NextEdit]_vars

(* ---------------------------------------------------------------------- *)
(* Properties of hand edits during a refine                               *)
(* ---------------------------------------------------------------------- *)
\* The codes of the entries of a ledger
Codes(h) == { h[i].code : i \in 1..Len(h) }

\* The code in the editor was typed while the refine call was outstanding.
EditedInFlight ==
  /\ apiCall # NoCall
  /\ apiCall.op = "refine"
  /\ generatedCode # apiCall.before.code

====
